---- MODULE Spec2Model ----
(***************************************************************************)
(* A state-machine model of the TapForge contracts: MinerGame (commit /    *)
(* reveal, direct taps, the tap engine, asset registration, leveling),     *)
(* and the parts of MinerNFT and MinerToken the game calls.                *)
(*                                                                         *)
(* Conventions                                                             *)
(*  - Every external function is one action.  A call that reverts leaves   *)
(*    the contract state as it was (the EVM rolls a reverted transaction   *)
(*    back) and records the revert reason in ret.result; a call that       *)
(*    returns records "ok".                                                *)
(*  - Token amounts are counted in whole MINE (10**18 base units): every   *)
(*    amount of the source that the model uses is a multiple of 10**18,    *)
(*    and (x * 110) / 100 is exact on multiples of 10 * 10**18.            *)
(*  - keccak256 is collision free: a commitment digest is modelled by the  *)
(*    tuple of the values packed into it.  The digests that drive the      *)
(*    random rolls are modelled by a fixed mixing function on a bounded    *)
(*    seed space (SeedSpace) that keeps the two bit ranges the engine      *)
(*    reads (seed % 100 and (seed >> 8) % 100).                            *)
(***************************************************************************)
EXTENDS Integers, Sequences, FiniteSets, TLC

\* ------------------------------------------------------------ constants
\* MinerGame.sol constants (amounts in whole MINE).
BASE_REWARD == 10
MAX_TAPS_PER_CALL == 20
MAX_TAPS_PER_BLOCK == 100
UPGRADE_COST_MULTIPLIER == 100
PITY_THRESHOLD == 50
PITY_INCREMENT == 2
MAX_PITY_BONUS == 50
CRITICAL_BASE_CHANCE == 10
MAX_LEVEL == 100
MAX_REGISTERED_MINERS == 50
COMMIT_REVEAL_BLOCKS == 1
MAX_REVEAL_DELAY == 256
MAX_DAILY_MINT == 1000000
\* The cap of updateGemReward on a gem's bonus (10000 * 10**18).
MAX_GEM_BONUS == 10000
\* The cap of setDailyLimit (1000000 ether).
MAX_DAILY_LIMIT == 1000000
\* The literal of the gem check on a critical tap (randomSeed % 100 < 5).
GEM_DROP_CHANCE_ON_CRITICAL == 5
\* The commit-reveal bonus: baseTapReward * 110 / 100.
COMMIT_REVEAL_BONUS == 110
\* blockhash(b) is non-zero only for the 256 blocks before the current one.
BLOCKHASH_WINDOW == 256
\* MinerNFT.sol: power by rarity.
COMMON_POWER == 1
RARE_POWER == 3
EPIC_POWER == 7
LEGENDARY_POWER == 15
\* MinerToken.sol (whole MINE).
INITIAL_SUPPLY == 1000000
MAX_SUPPLY == 100000000

\* --------------------------------------------------------------- bounds
\* The last block the model mines.
MaxBlock == 259
\* A player's lifetime taps stay at or below this in the model.
MaxTotalTaps == 124
\* The admin funds each player with at most this many MINE in the model.
MaxFunding == 300
\* The last day of the model, counted from the day of deployment.
MaxDay == 1

\* ----------------------------------------------------------- the actors
Players == {"p1", "p2"}
NoOwner == "none"
Rarities == {"COMMON", "RARE", "EPIC", "LEGENDARY"}
GemTypes == {"RUBY", "SAPPHIRE", "DIAMOND"}
NONE == "NONE"

\* The secrets and nonces players draw from.
Secrets == {1, 2}
Nonces == {1, 2}

\* The seed space of the modelled digests: 256 * 100 values, so that both
\* seed % 100 and (seed >> 8) % 100 range over 0..99.
SeedSpace == 256 * 100

VARIABLES
    blockNumber,     \* block.number
    paused,          \* Pausable._paused
    commitments,     \* mapping(address => CommitData)
    players,         \* mapping(address => PlayerData)
    blockTaps,       \* mapping(address => mapping(uint256 => uint256))
    gemRewards,      \* mapping(GemType => GemReward)
    criticalWeights, \* uint256[4]
    nftOwner,        \* MinerNFT: owner of each asset id, NoOwner if unminted
    nftRarity,       \* MinerNFT: rarity of each minted asset
    nftCounter,      \* MinerNFT._tokenIdCounter
    tokenBalance,    \* MinerToken: balanceOf
    tokenAllowance,  \* MinerToken: allowance(player, game)
    tokenSupply,     \* MinerToken: totalSupply
    currentDay,      \* the day the circuit breaker last counted for
    todaysMinted,    \* the amount the circuit breaker counted on currentDay
    dailyMintLimit,  \* the ceiling of the circuit breaker
    today,           \* block.timestamp / 1 days, counted from deployment
    dayMinted,       \* history: what withdraw has minted since today began
    inFlight,        \* the withdraw whose external mint call is running
    ret              \* the outcome of the last call

vars == <<blockNumber, paused, commitments, players, blockTaps, gemRewards,
          criticalWeights, nftOwner, nftRarity, nftCounter, tokenBalance,
          tokenAllowance, tokenSupply, currentDay, todaysMinted,
          dailyMintLimit, today, dayMinted, inFlight, ret>>

gameVars == <<commitments, players, blockTaps>>
configVars == <<paused, gemRewards, criticalWeights>>
nftVars == <<nftOwner, nftRarity, nftCounter>>
tokenVars == <<tokenBalance, tokenAllowance, tokenSupply>>
breakerVars == <<currentDay, todaysMinted, dailyMintLimit>>
mintVars == <<breakerVars, today, dayMinted, inFlight>>

criticalMultipliers == <<2, 5, 10, 50>>

\* --------------------------------------------------------------- digests
\* keccak256(abi.encodePacked(msg.sender, secret, nonce, commit.taps)).
CommitHash(sender, secret, nonce, taps) == <<sender, secret, nonce, taps>>

\* The zero value of a bytes32 slot.
ZeroDigest == <<>>

PlayerIndex(p) == IF p = "p1" THEN 1 ELSE 2

\* keccak256(abi.encodePacked(randomSeed, i)): the per-tap sub-seed.
SubSeed(seed, i) == (seed * 7919 + i * 10007 + 4099) % SeedSpace

\* uint256(keccak256(abi.encodePacked(blockHash, secret, nonce, msg.sender))).
RevealSeed(blockHash, secret, nonce, sender) ==
    (blockHash * 6151 + secret * 1543 + nonce * 769 + PlayerIndex(sender) * 193)
        % SeedSpace

\* blockhash(b) evaluated in block n: zero unless b is one of the 256 blocks
\* before n (the current block's own hash is not available).
BlockhashAvailable(b, n) == b < n /\ b + BLOCKHASH_WINDOW >= n

\* ------------------------------------------------------- tap engine math
Min(a, b) == IF a <= b THEN a ELSE b

\* The shared library: calculatePityBonus(tapsSinceCritical, threshold,
\* increment, max).
calculatePityBonus(tapsSinceCritical, threshold, increment, max) ==
    IF tapsSinceCritical <= threshold THEN 0
    ELSE Min((tapsSinceCritical - threshold) * increment, max)

\* The shared library: calculateCriticalChance(baseChance, pityBonus).
calculateCriticalChance(baseChance, pityBonus) ==
    Min(baseChance + pityBonus, 100)

\* Mutant: the bonus is not capped.
_calculatePityBonusUncapped(tapsSinceCritical) ==
    IF tapsSinceCritical <= PITY_THRESHOLD THEN 0
    ELSE (tapsSinceCritical - PITY_THRESHOLD) * PITY_INCREMENT

_calculatePityBonus(tapsSinceCritical) ==
    IF tapsSinceCritical <= PITY_THRESHOLD THEN 0
    ELSE LET bonus == (tapsSinceCritical - PITY_THRESHOLD) * PITY_INCREMENT
         IN  IF bonus > MAX_PITY_BONUS THEN MAX_PITY_BONUS ELSE bonus

RECURSIVE SelectMultiplierFrom(_, _, _, _)
SelectMultiplierFrom(weights, random, i, cumulative) ==
    IF i > 4 THEN criticalMultipliers[1]
    ELSE IF random < cumulative + weights[i] THEN criticalMultipliers[i]
    ELSE SelectMultiplierFrom(weights, random, i + 1, cumulative + weights[i])

_selectMultiplier(weights, seed) == SelectMultiplierFrom(weights, seed % 100, 1, 0)

\* Mutant: the draw is compared with each drop chance on its own, not
\* cumulatively.
_selectGemNotCumulative(gems, seed) ==
    LET random == seed % 100
    IN  IF random < gems["RUBY"].dropChance THEN "RUBY"
        ELSE IF random < gems["SAPPHIRE"].dropChance THEN "SAPPHIRE"
        ELSE IF random < gems["DIAMOND"].dropChance THEN "DIAMOND"
        ELSE NONE

\* Whether one of the two checked subtractions of _selectGem wraps below
\* zero, which would revert the call.
_selectGemUnderflows(gems, seed) ==
    LET random == seed % 100
        r1 == random - gems["RUBY"].dropChance
        r2 == r1 - gems["SAPPHIRE"].dropChance
    IN  IF random < gems["RUBY"].dropChance THEN FALSE
        ELSE IF r1 < 0 THEN TRUE
        ELSE IF r1 < gems["SAPPHIRE"].dropChance THEN FALSE
        ELSE r2 < 0

_selectGem(gems, seed) ==
    LET random == seed % 100
        r1 == random - gems["RUBY"].dropChance
        r2 == r1 - gems["SAPPHIRE"].dropChance
    IN  IF random < gems["RUBY"].dropChance THEN "RUBY"
        ELSE IF r1 < gems["SAPPHIRE"].dropChance THEN "SAPPHIRE"
        ELSE IF r2 < gems["DIAMOND"].dropChance THEN "DIAMOND"
        ELSE NONE

\* ------------------------------------------------------------- records
\* The asset ids the registry mints in the model (ids count up from 0): one
\* more asset than a player may register.
TokenIds == 0 .. MAX_REGISTERED_MINERS

\* A default-initialised PlayerData.
EmptyPlayer ==
    [level |-> 0, totalPower |-> 0, pendingRewards |-> 0, totalMined |-> 0,
     totalTaps |-> 0, criticalHits |-> 0, lastTapBlock |-> 0,
     tapsSinceCritical |-> 0, registeredMiners |-> <<>>]

\* A default-initialised CommitData.
EmptyCommit ==
    [hash |-> ZeroDigest, blockNumber |-> 0, taps |-> 0, revealed |-> FALSE]

\* MinerNFT._getPowerByRarity.
_getPowerByRarity(rarity) ==
    CASE rarity = "COMMON" -> COMMON_POWER
      [] rarity = "RARE" -> RARE_POWER
      [] rarity = "EPIC" -> EPIC_POWER
      [] rarity = "LEGENDARY" -> LEGENDARY_POWER
      [] OTHER -> COMMON_POWER

\* blockTaps[p][b], zero for a slot never written.
BlockTapsOf(p, b) == IF b \in DOMAIN blockTaps[p] THEN blockTaps[p][b] ELSE 0

\* What a call leaves in ret: the function, the caller, its arguments, "ok"
\* or the revert reason, the taps executed, the reward and the events.
Outcome(op, sender, arg, result, taps, reward, events) ==
    [op |-> op, sender |-> sender, arg |-> arg, result |-> result,
     taps |-> taps, reward |-> reward, events |-> events]

Reverted(op, sender, arg, reason) == Outcome(op, sender, arg, reason, 0, 0, <<>>)

\* ----------------------------------------------------------- tap engine
\* The sum of the power of the registered assets the player owns now: the
\* loop of _calculateAndCachePower (ownerOf of an unminted id reverts and is
\* caught, so the asset is skipped).
\* Mutant: every registered asset counts, whoever owns it now.
RECURSIVE RegisteredPowerAnyOwner(_, _, _)
RegisteredPowerAnyOwner(p, miners, i) ==
    IF i > Len(miners) THEN 0
    ELSE (IF miners[i] \in TokenIds /\ nftOwner[miners[i]] # NoOwner
          THEN _getPowerByRarity(nftRarity[miners[i]])
          ELSE 0) + RegisteredPowerAnyOwner(p, miners, i + 1)

RECURSIVE OwnedPower(_, _, _)
OwnedPower(p, miners, i) ==
    IF i > Len(miners) THEN 0
    ELSE (IF miners[i] \in TokenIds /\ nftOwner[miners[i]] = p
          THEN _getPowerByRarity(nftRarity[miners[i]])
          ELSE 0) + OwnedPower(p, miners, i + 1)

\* Mutant: the cached value is used instead of a fresh one.
_calculateAndCachePowerStale(p) == players[p].totalPower

\* finalPower of _calculateAndCachePower.  The uint128 bound of the source
\* is out of reach: at most 50 assets of power 15 and level <= 100.
_calculateAndCachePower(p) ==
    OwnedPower(p, players[p].registeredMiners, 1) * (players[p].level + 1)

\* Mutant: the + 1 of (totalPower + 1) is lost.
BaseTapRewardNoOffset(totalPower, isCommitReveal) ==
    LET base == BASE_REWARD * totalPower
    IN  IF isCommitReveal THEN (base * COMMIT_REVEAL_BONUS) \div 100 ELSE base

\* Mutant: the commit-reveal bonus is never applied.
BaseTapRewardNoBonus(totalPower, isCommitReveal) ==
    BASE_REWARD * (totalPower + 1)

\* baseTapReward of _executeTaps.
BaseTapReward(totalPower, isCommitReveal) ==
    LET base == BASE_REWARD * (totalPower + 1)
    IN  IF isCommitReveal THEN (base * COMMIT_REVEAL_BONUS) \div 100 ELSE base

\* The critical hit check of a tap on its sub-seed.
IsCriticalTap(randomSeed, tapsSinceCritical) ==
    randomSeed % 100
        < CRITICAL_BASE_CHANCE + _calculatePityBonus(tapsSinceCritical)

\* The gem check of a critical tap on its sub-seed.
GemRoll(randomSeed) == randomSeed % 100 < GEM_DROP_CHANCE_ON_CRITICAL

\* Mutant: the gem bonus is added before the multiplier is applied.
CriticalTapRewardGemMultiplied(baseTapReward, multiplier, gemBonus) ==
    (baseTapReward + gemBonus) * multiplier

\* tapReward of a critical tap: baseTapReward * multiplier, plus the bonus
\* of the gem found (0 if none).
CriticalTapReward(baseTapReward, multiplier, gemBonus) ==
    baseTapReward * multiplier + gemBonus

\* Mutant: every tap of a batch is decided against the dry streak the batch
\* started with.
TapStepStaleStreak(p, acc, i, baseTapReward) ==
    LET randomSeed == SubSeed(acc.seed, i)
        critical == IsCriticalTap(randomSeed, players[p].tapsSinceCritical)
        multiplier == _selectMultiplier(criticalWeights, randomSeed)
        gem == IF critical /\ GemRoll(randomSeed)
               THEN _selectGem(gemRewards, randomSeed \div 256) ELSE NONE
        gemBonus == IF gem = NONE THEN 0 ELSE gemRewards[gem].bonus
        tapReward == IF critical
                     THEN CriticalTapReward(baseTapReward, multiplier, gemBonus)
                     ELSE baseTapReward
    IN  [seed |-> randomSeed,
         totalReward |-> acc.totalReward + tapReward,
         criticalHits |-> IF critical THEN acc.criticalHits + 1
                          ELSE acc.criticalHits,
         tapsSinceCritical |-> IF critical THEN 0
                               ELSE acc.tapsSinceCritical + 1,
         hasCritical |-> acc.hasCritical \/ critical,
         events |-> IF gem = NONE THEN acc.events
                    ELSE Append(acc.events,
                                [name |-> "GemFound", player |-> p,
                                 gemType |-> gem, bonus |-> gemBonus])]

\* One iteration of the loop of _executeTaps on the running values
\* acc = [seed, totalReward, criticalHits, tapsSinceCritical, hasCritical,
\* events].
TapStep(p, acc, i, baseTapReward) ==
    LET randomSeed == SubSeed(acc.seed, i)
        critical == IsCriticalTap(randomSeed, acc.tapsSinceCritical)
        multiplier == _selectMultiplier(criticalWeights, randomSeed)
        gem == IF critical /\ GemRoll(randomSeed)
               THEN _selectGem(gemRewards, randomSeed \div 256) ELSE NONE
        gemBonus == IF gem = NONE THEN 0 ELSE gemRewards[gem].bonus
        tapReward == IF critical
                     THEN CriticalTapReward(baseTapReward, multiplier, gemBonus)
                     ELSE baseTapReward
    IN  [seed |-> randomSeed,
         totalReward |-> acc.totalReward + tapReward,
         criticalHits |-> IF critical THEN acc.criticalHits + 1
                          ELSE acc.criticalHits,
         tapsSinceCritical |-> IF critical THEN 0
                               ELSE acc.tapsSinceCritical + 1,
         hasCritical |-> acc.hasCritical \/ critical,
         events |-> IF gem = NONE THEN acc.events
                    ELSE Append(acc.events,
                                [name |-> "GemFound", player |-> p,
                                 gemType |-> gem, bonus |-> gemBonus])]

RECURSIVE TapLoop(_, _, _, _, _)
TapLoop(p, acc, i, taps, baseTapReward) ==
    IF i >= taps THEN acc
    ELSE TapLoop(p, TapStep(p, acc, i, baseTapReward), i + 1, taps,
                 baseTapReward)

\* Mutant: the ceiling is tested before the batch is added.
BlockLimitOkBeforeBatch(currentBlockTaps, taps) ==
    currentBlockTaps <= MAX_TAPS_PER_BLOCK

\* The per-block ceiling of _executeTaps.
BlockLimitOk(currentBlockTaps, taps) ==
    currentBlockTaps + taps <= MAX_TAPS_PER_BLOCK

\* Mutant: the reward of the batch replaces the pending rewards.
UpdateStatsRewardOverwritten(player, taps, totalReward, currentBlock) ==
    [player EXCEPT !.pendingRewards = totalReward,
                   !.totalTaps = @ + taps,
                   !.lastTapBlock = currentBlock]

\* The update of the player stats that ends _executeTaps.
UpdateStats(player, taps, totalReward, currentBlock) ==
    [player EXCEPT !.pendingRewards = @ + totalReward,
                   !.totalTaps = @ + taps,
                   !.lastTapBlock = currentBlock]

\* _executeTaps for msg.sender = p: the revert reason or "ok", the new
\* PlayerData and block counter, the reward and the events emitted.
_executeTaps(p, taps, randomSeed, isCommitReveal) ==
    LET player == players[p]
        currentBlockTaps == BlockTapsOf(p, blockNumber)
        totalPower == _calculateAndCachePower(p)
        baseTapReward == BaseTapReward(totalPower, isCommitReveal)
        out == TapLoop(p,
                       [seed |-> randomSeed, totalReward |-> 0,
                        criticalHits |-> player.criticalHits,
                        tapsSinceCritical |-> player.tapsSinceCritical,
                        hasCritical |-> FALSE, events |-> <<>>],
                       0, taps, baseTapReward)
    IN  IF ~BlockLimitOk(currentBlockTaps, taps)
        THEN [result |-> "Block limit exceeded", player |-> player,
              blockTaps |-> blockTaps[p], reward |-> 0, events |-> <<>>]
        ELSE [result |-> "ok",
              player |-> UpdateStats(
                            [player EXCEPT
                               !.totalPower = totalPower,
                               !.criticalHits = out.criticalHits,
                               !.tapsSinceCritical = out.tapsSinceCritical],
                            taps, out.totalReward, blockNumber),
              blockTaps |-> [b \in DOMAIN blockTaps[p] \cup {blockNumber} |->
                               IF b = blockNumber THEN currentBlockTaps + taps
                               ELSE blockTaps[p][b]],
              reward |-> out.totalReward,
              events |-> Append(out.events,
                                [name |-> "Tapped", player |-> p,
                                 taps |-> taps, reward |-> out.totalReward,
                                 critical |-> out.hasCritical])]

\* --------------------------------------------------------------- actors
\* The deployer: owner of the game, admin and minter of token and registry.
Owner == "owner"
Accounts == Players \cup {Owner}

\* inFlight while no withdraw is waiting for its external call to return.
NoCall == [sender |-> NoOwner]

\* ReentrancyGuard: _status is ENTERED.
Entered == inFlight # NoCall

\* ----------------------------------------------------------------- Init
\* The state after the three constructors ran and the roles were granted.
Init ==
    /\ blockNumber = 1
    /\ paused = FALSE
    /\ commitments = [p \in Players |-> EmptyCommit]
    /\ players = [p \in Players |-> EmptyPlayer]
    /\ blockTaps = [p \in Players |-> <<>>]
    /\ gemRewards = [g \in GemTypes |->
                       CASE g = "RUBY" -> [bonus |-> 100, dropChance |-> 70]
                         [] g = "SAPPHIRE" -> [bonus |-> 500, dropChance |-> 25]
                         [] g = "DIAMOND" -> [bonus |-> 2000, dropChance |-> 5]]
    /\ criticalWeights = <<60, 25, 10, 5>>
    /\ nftOwner = [t \in TokenIds |-> NoOwner]
    /\ nftRarity = [t \in TokenIds |-> "COMMON"]
    /\ nftCounter = 0
    /\ tokenBalance = [a \in Accounts |-> IF a = Owner THEN INITIAL_SUPPLY ELSE 0]
    /\ tokenAllowance = [a \in Accounts |-> 0]
    /\ tokenSupply = INITIAL_SUPPLY
    /\ currentDay = 0
    /\ todaysMinted = 0
    /\ dailyMintLimit = MAX_DAILY_MINT
    /\ today = 0
    /\ dayMinted = 0
    /\ inFlight = NoCall
    /\ ret = Outcome("constructor", Owner, <<>>, "ok", 0, 0, <<>>)

\* ------------------------------------------------------- commit / reveal
\* Mutant: the lower bound of the tap count is not checked.
ValidTapCountNoLowerBound(taps) == taps <= MAX_TAPS_PER_CALL

\* require(taps > 0 && taps <= MAX_TAPS_PER_CALL, "Invalid tap count").
ValidTapCount(taps) == taps > 0 /\ taps <= MAX_TAPS_PER_CALL

\* Mutant: a stored commitment never blocks a new one.
NoPendingCommitmentUnchecked(commit) == TRUE

\* Mutant: a revealed commitment does not free the slot.
NoPendingCommitmentFirstOnly(commit) == commit.blockNumber = 0

\* require(commit.blockNumber == 0 || commit.revealed, "Pending commitment").
NoPendingCommitment(commit) == commit.blockNumber = 0 \/ commit.revealed

\* Mutant: commitTap without whenNotPaused.
CommitTapResultUnpaused(p, taps) ==
    IF ~ValidTapCount(taps) THEN "Invalid tap count"
    ELSE IF ~NoPendingCommitment(commitments[p]) THEN "Pending commitment"
    ELSE "ok"

\* The revert reason of commitTap(commitment, taps) by p, or "ok".
CommitTapResult(p, taps) ==
    IF paused THEN "EnforcedPause"
    ELSE IF ~ValidTapCount(taps) THEN "Invalid tap count"
    ELSE IF ~NoPendingCommitment(commitments[p]) THEN "Pending commitment"
    ELSE "ok"

\* Mutant: one commitment slot for all players instead of one per sender.
commitTapShared(p, commitment, taps) ==
    /\ LET result == CommitTapResult(p, taps)
       IN  IF result = "ok"
           THEN /\ commitments' =
                     [q \in Players |->
                        [hash |-> commitment, blockNumber |-> blockNumber,
                         taps |-> taps, revealed |-> FALSE]]
                /\ ret' = Outcome("commitTap", p, taps, "ok", 0, 0,
                                  <<[name |-> "CommitmentMade", player |-> p,
                                     commitment |-> commitment]>>)
           ELSE /\ commitments' = commitments
                /\ ret' = Reverted("commitTap", p, taps, result)
    /\ UNCHANGED <<mintVars, blockNumber, players, blockTaps, configVars, nftVars,
                   tokenVars>>

commitTap(p, commitment, taps) ==
    /\ LET result == CommitTapResult(p, taps)
       IN  IF result = "ok"
           THEN /\ commitments' =
                     [commitments EXCEPT ![p] =
                        [hash |-> commitment, blockNumber |-> blockNumber,
                         taps |-> taps, revealed |-> FALSE]]
                /\ ret' = Outcome("commitTap", p, taps, "ok", 0, 0,
                                  <<[name |-> "CommitmentMade", player |-> p,
                                     commitment |-> commitment]>>)
           ELSE /\ commitments' = commitments
                /\ ret' = Reverted("commitTap", p, taps, result)
    /\ UNCHANGED <<mintVars, blockNumber, players, blockTaps, configVars, nftVars,
                   tokenVars>>

\* require(block.number >= commit.blockNumber + COMMIT_REVEAL_BLOCKS, "Too early").
RevealDelayMet(commit, n) == n >= commit.blockNumber + COMMIT_REVEAL_BLOCKS

\* blockhash(commit.blockNumber + COMMIT_REVEAL_BLOCKS) != bytes32(0).
RevealHashAvailable(commit, n) ==
    BlockhashAvailable(commit.blockNumber + COMMIT_REVEAL_BLOCKS, n)

\* require(block.number <= commit.blockNumber + MAX_REVEAL_DELAY, "Too late").
RevealNotTooLate(commit, n) == n <= commit.blockNumber + MAX_REVEAL_DELAY

\* Mutant: the nonce is left out of the recomputed digest.
RevealMatchesAnyNonce(p, commit, secret, nonce) ==
    \E other \in Nonces : CommitHash(p, secret, other, commit.taps) = commit.hash

\* require(hash == commit.hash, "Invalid reveal").
RevealMatches(p, commit, secret, nonce) ==
    CommitHash(p, secret, nonce, commit.taps) = commit.hash

\* Mutant: the upper bound of the window is checked before the digest.
RevealChecksLateFirst(p, secret, nonce) ==
    LET commit == commitments[p]
    IN  IF paused THEN "EnforcedPause"
        ELSE IF Entered THEN "ReentrancyGuardReentrantCall"
        ELSE IF ~(commit.blockNumber > 0) THEN "No commitment"
        ELSE IF commit.revealed THEN "Already revealed"
        ELSE IF ~RevealDelayMet(commit, blockNumber) THEN "Too early"
        ELSE IF ~RevealNotTooLate(commit, blockNumber) THEN "Too late"
        ELSE IF ~RevealHashAvailable(commit, blockNumber)
             THEN "Block hash not available"
        ELSE IF ~RevealMatches(p, commit, secret, nonce) THEN "Invalid reveal"
        ELSE "ok"

\* Mutant: the revealed flag is not checked.
RevealChecksIgnoreRevealed(p, secret, nonce) ==
    LET commit == commitments[p]
    IN  IF paused THEN "EnforcedPause"
        ELSE IF Entered THEN "ReentrancyGuardReentrantCall"
        ELSE IF ~(commit.blockNumber > 0) THEN "No commitment"
        ELSE IF ~RevealDelayMet(commit, blockNumber) THEN "Too early"
        ELSE IF ~RevealHashAvailable(commit, blockNumber)
             THEN "Block hash not available"
        ELSE IF ~RevealNotTooLate(commit, blockNumber) THEN "Too late"
        ELSE IF ~RevealMatches(p, commit, secret, nonce) THEN "Invalid reveal"
        ELSE "ok"

\* The revert reason of the checks of revealTap(secret, nonce) by p that
\* precede the tap engine, or "ok".
RevealChecks(p, secret, nonce) ==
    LET commit == commitments[p]
    IN  IF paused THEN "EnforcedPause"
        ELSE IF Entered THEN "ReentrancyGuardReentrantCall"
        ELSE IF ~(commit.blockNumber > 0) THEN "No commitment"
        ELSE IF commit.revealed THEN "Already revealed"
        ELSE IF ~RevealDelayMet(commit, blockNumber) THEN "Too early"
        ELSE IF ~RevealHashAvailable(commit, blockNumber)
             THEN "Block hash not available"
        ELSE IF ~RevealNotTooLate(commit, blockNumber) THEN "Too late"
        ELSE IF ~RevealMatches(p, commit, secret, nonce) THEN "Invalid reveal"
        ELSE "ok"

\* The revert reason of revealTap(secret, nonce) by p, or "ok".
RevealTapResult(p, secret, nonce) ==
    IF RevealChecks(p, secret, nonce) # "ok" THEN RevealChecks(p, secret, nonce)
    ELSE _executeTaps(p, commitments[p].taps, 0, TRUE).result

\* blockHash is the digest of block commit.blockNumber + COMMIT_REVEAL_BLOCKS,
\* which the chain, not the player, decides.
revealTap(p, secret, nonce, blockHash) ==
    /\ players[p].totalTaps + commitments[p].taps <= MaxTotalTaps
    /\ LET checks == RevealChecks(p, secret, nonce)
           run == _executeTaps(p, commitments[p].taps,
                               RevealSeed(blockHash, secret, nonce, p), TRUE)
       IN  IF checks = "ok" /\ run.result = "ok"
           THEN /\ commitments' = [commitments EXCEPT ![p].revealed = TRUE]
                /\ players' = [players EXCEPT ![p] = run.player]
                /\ blockTaps' = [blockTaps EXCEPT ![p] = run.blockTaps]
                /\ ret' = Outcome("revealTap", p, <<secret, nonce>>, "ok",
                                  commitments[p].taps,
                                  run.reward,
                                  Append(run.events,
                                         [name |-> "CommitmentRevealed",
                                          player |-> p,
                                          reward |-> run.reward]))
           ELSE /\ UNCHANGED gameVars
                /\ ret' = Reverted("revealTap", p, <<secret, nonce>>,
                                   IF checks # "ok" THEN checks ELSE run.result)
    /\ UNCHANGED <<mintVars, blockNumber, configVars, nftVars, tokenVars>>

\* ------------------------------------------------------------ direct tap
\* Mutant: a direct tap is refused while a commitment is pending.
TapMineResultNoCommitment(p, taps) ==
    IF paused THEN "EnforcedPause"
    ELSE IF Entered THEN "ReentrancyGuardReentrantCall"
    ELSE IF ~ValidTapCount(taps) THEN "Invalid tap count"
    ELSE IF ~NoPendingCommitment(commitments[p]) THEN "Pending commitment"
    ELSE _executeTaps(p, taps, 0, FALSE).result

\* The revert reason of tapMine(taps) by p, or "ok".
TapMineResult(p, taps) ==
    IF paused THEN "EnforcedPause"
    ELSE IF Entered THEN "ReentrancyGuardReentrantCall"
    ELSE IF ~ValidTapCount(taps) THEN "Invalid tap count"
    ELSE _executeTaps(p, taps, 0, FALSE).result

\* randomSeed is keccak256 of (block.timestamp, block.prevrandao, msg.sender,
\* blockhash(block.number - 1)): a value the chain decides.
tapMine(p, taps, randomSeed) ==
    /\ players[p].totalTaps + taps <= MaxTotalTaps
    /\ LET result == TapMineResult(p, taps)
           run == _executeTaps(p, taps, randomSeed, FALSE)
       IN  IF result = "ok"
           THEN /\ players' = [players EXCEPT ![p] = run.player]
                /\ blockTaps' = [blockTaps EXCEPT ![p] = run.blockTaps]
                /\ ret' = Outcome("tapMine", p, taps, "ok", taps, run.reward,
                                  run.events)
           ELSE /\ UNCHANGED <<players, blockTaps>>
                /\ ret' = Reverted("tapMine", p, taps, result)
    /\ UNCHANGED <<mintVars, blockNumber, commitments, configVars, nftVars, tokenVars>>

\* ------------------------------------------------------------ the chain
\* n blocks are mined (hardhat_mine in the tests).
Mine(n) ==
    /\ n >= 1
    /\ blockNumber + n <= MaxBlock
    /\ blockNumber' = blockNumber + n
    /\ ret' = Outcome("mine", Owner, n, "ok", 0, 0, <<>>)
    /\ UNCHANGED <<mintVars, gameVars, configVars, nftVars, tokenVars>>

\* ---------------------------------------------------------------- admin
pause(caller) ==
    /\ IF caller # Owner
       THEN paused' = paused
            /\ ret' = Reverted("pause", caller, <<>>, "OwnableUnauthorizedAccount")
       ELSE IF paused
       THEN paused' = paused /\ ret' = Reverted("pause", caller, <<>>, "EnforcedPause")
       ELSE paused' = TRUE
            /\ ret' = Outcome("pause", caller, <<>>, "ok", 0, 0,
                              <<[name |-> "Paused", account |-> caller]>>)
    /\ UNCHANGED <<mintVars, blockNumber, gameVars, gemRewards, criticalWeights, nftVars,
                   tokenVars>>

unpause(caller) ==
    /\ IF caller # Owner
       THEN paused' = paused
            /\ ret' = Reverted("unpause", caller, <<>>,
                           "OwnableUnauthorizedAccount")
       ELSE IF ~paused
       THEN paused' = paused /\ ret' = Reverted("unpause", caller, <<>>, "ExpectedPause")
       ELSE paused' = FALSE
            /\ ret' = Outcome("unpause", caller, <<>>, "ok", 0, 0,
                              <<[name |-> "Unpaused", account |-> caller]>>)
    /\ UNCHANGED <<mintVars, blockNumber, gameVars, gemRewards, criticalWeights, nftVars,
                   tokenVars>>

\* emergencyPause: _pause and the EmergencyPause event.
emergencyPause(caller) ==
    /\ IF caller # Owner
       THEN paused' = paused
            /\ ret' = Reverted("emergencyPause", caller, <<>>,
                               "OwnableUnauthorizedAccount")
       ELSE IF paused
       THEN paused' = paused
            /\ ret' = Reverted("emergencyPause", caller, <<>>, "EnforcedPause")
       ELSE paused' = TRUE
            /\ ret' = Outcome("emergencyPause", caller, <<>>, "ok", 0, 0,
                              <<[name |-> "Paused", account |-> caller],
                                [name |-> "EmergencyPause", caller |-> caller]>>)
    /\ UNCHANGED <<mintVars, blockNumber, gameVars, gemRewards, criticalWeights,
                   nftVars, tokenVars>>

\* The revert reason of updateGemReward(gemType, bonus, dropChance), or "ok".
UpdateGemRewardResult(caller, gemType, bonus, dropChance) ==
    IF caller # Owner THEN "OwnableUnauthorizedAccount"
    ELSE IF ~(gemType # NONE) THEN "Invalid gem"
    ELSE IF ~(dropChance <= 100) THEN "Invalid chance"
    ELSE IF ~(bonus <= MAX_GEM_BONUS) THEN "Bonus too high"
    ELSE "ok"

updateGemReward(caller, gemType, bonus, dropChance) ==
    /\ LET result == UpdateGemRewardResult(caller, gemType, bonus, dropChance)
       IN  IF result = "ok"
           THEN /\ gemRewards' = [gemRewards EXCEPT ![gemType] =
                                    [bonus |-> bonus, dropChance |-> dropChance]]
                /\ ret' = Outcome("updateGemReward", caller,
                                  <<gemType, bonus, dropChance>>, "ok", 0, 0,
                                  <<>>)
           ELSE /\ UNCHANGED gemRewards
                /\ ret' = Reverted("updateGemReward", caller,
                                   <<gemType, bonus, dropChance>>, result)
    /\ UNCHANGED <<mintVars, blockNumber, gameVars, paused, criticalWeights,
                   nftVars, tokenVars>>

RECURSIVE SumSeq(_, _)
SumSeq(seq, i) == IF i > Len(seq) THEN 0 ELSE seq[i] + SumSeq(seq, i + 1)

\* Mutant: the sum of the weights is not tested.
UpdateCriticalWeightsResultUnsummed(caller, weights) ==
    IF caller # Owner THEN "OwnableUnauthorizedAccount"
    ELSE IF ~(Len(weights) = 4) THEN "Invalid weights length"
    ELSE "ok"

\* The revert reason of updateCriticalWeights(weights), or "ok".  The loop
\* writes each weight before the sum is tested; a failed test reverts the
\* writes.
UpdateCriticalWeightsResult(caller, weights) ==
    IF caller # Owner THEN "OwnableUnauthorizedAccount"
    ELSE IF ~(Len(weights) = 4) THEN "Invalid weights length"
    ELSE IF ~(SumSeq(weights, 1) = 100) THEN "Weights must sum to 100"
    ELSE "ok"

updateCriticalWeights(caller, weights) ==
    /\ LET result == UpdateCriticalWeightsResult(caller, weights)
       IN  IF result = "ok"
           THEN /\ criticalWeights' = weights
                /\ ret' = Outcome("updateCriticalWeights", caller, weights,
                                  "ok", 0, 0, <<>>)
           ELSE /\ UNCHANGED criticalWeights
                /\ ret' = Reverted("updateCriticalWeights", caller, weights,
                                   result)
    /\ UNCHANGED <<mintVars, blockNumber, gameVars, paused, gemRewards, nftVars,
                   tokenVars>>

\* ------------------------------------------------------- asset registry
\* MinerNFT.mintMiner by the minter (the deployer): the next id is minted.
mintMiner(to, rarity) ==
    /\ nftCounter \in TokenIds
    /\ nftOwner' = [nftOwner EXCEPT ![nftCounter] = to]
    /\ nftRarity' = [nftRarity EXCEPT ![nftCounter] = rarity]
    /\ nftCounter' = nftCounter + 1
    /\ ret' = Outcome("mintMiner", Owner, <<to, rarity>>, "ok", 0, 0, <<>>)
    /\ UNCHANGED <<mintVars, blockNumber, gameVars, configVars, tokenVars>>

\* ERC721 transferFrom by the owner of the asset.
transferMiner(from, to, tokenId) ==
    /\ nftOwner[tokenId] = from
    /\ from # to
    /\ nftOwner' = [nftOwner EXCEPT ![tokenId] = to]
    /\ ret' = Outcome("transferMiner", from, <<to, tokenId>>, "ok", 0, 0, <<>>)
    /\ UNCHANGED <<mintVars, blockNumber, gameVars, configVars, nftRarity, nftCounter,
                   tokenVars>>

\* Whether tokenId is in the list (the duplicate scan of registerMiner).
IsRegistered(miners, tokenId) == \E i \in 1 .. Len(miners) : miners[i] = tokenId

\* Mutant: the length check admits one registration too many.
RegisterMinerResultOffByOne(p, tokenId) ==
    IF nftOwner[tokenId] = NoOwner THEN "ERC721NonexistentToken"
    ELSE IF nftOwner[tokenId] # p THEN "Not the owner"
    ELSE IF ~(Len(players[p].registeredMiners) <= MAX_REGISTERED_MINERS)
         THEN "Max miners reached"
    ELSE IF IsRegistered(players[p].registeredMiners, tokenId)
         THEN "Already registered"
    ELSE "ok"

\* The revert reason of registerMiner(tokenId) by p, or "ok".
RegisterMinerResult(p, tokenId) ==
    IF nftOwner[tokenId] = NoOwner THEN "ERC721NonexistentToken"
    ELSE IF nftOwner[tokenId] # p THEN "Not the owner"
    ELSE IF ~(Len(players[p].registeredMiners) < MAX_REGISTERED_MINERS)
         THEN "Max miners reached"
    ELSE IF IsRegistered(players[p].registeredMiners, tokenId)
         THEN "Already registered"
    ELSE "ok"

registerMiner(p, tokenId) ==
    /\ LET result == RegisterMinerResult(p, tokenId)
       IN  IF result = "ok"
           THEN /\ players' = [players EXCEPT ![p].registeredMiners =
                                                Append(@, tokenId)]
                /\ ret' = Outcome("registerMiner", p, tokenId, "ok", 0, 0,
                                  <<[name |-> "MinerRegistered", player |-> p,
                                     tokenId |-> tokenId]>>)
           ELSE /\ players' = players
                /\ ret' = Reverted("registerMiner", p, tokenId, result)
    /\ UNCHANGED <<mintVars, blockNumber, commitments, blockTaps, configVars, nftVars,
                   tokenVars>>

\* The index of the first occurrence of tokenId in the list, 0 if none.
RECURSIVE IndexOf(_, _, _)
IndexOf(miners, tokenId, i) ==
    IF i > Len(miners) THEN 0
    ELSE IF miners[i] = tokenId THEN i
    ELSE IndexOf(miners, tokenId, i + 1)

\* Mutant: the level ceiling is tested one level too late.
UpgradeResultPastMaxLevel(p) ==
    LET cost == (players[p].level + 1) * UPGRADE_COST_MULTIPLIER
    IN  IF Entered THEN "ReentrancyGuardReentrantCall"
        ELSE IF ~(players[p].level <= MAX_LEVEL) THEN "Max level reached"
        ELSE IF ~(tokenBalance[p] >= cost) THEN "Insufficient balance"
        ELSE IF ~(tokenAllowance[p] >= cost) THEN "Insufficient allowance"
        ELSE "ok"

\* Mutant: pops the last element without the swap.
PopLast(miners, i) == SubSeq(miners, 1, Len(miners) - 1)

\* Swap with the last element and pop.
SwapRemove(miners, i) ==
    SubSeq([miners EXCEPT ![i] = miners[Len(miners)]], 1, Len(miners) - 1)

unregisterMiner(p, tokenId) ==
    /\ LET miners == players[p].registeredMiners
           i == IndexOf(miners, tokenId, 1)
       IN  IF i # 0
           THEN /\ players' = [players EXCEPT ![p].registeredMiners =
                                                SwapRemove(miners, i)]
                /\ ret' = Outcome("unregisterMiner", p, tokenId, "ok", 0, 0,
                                  <<[name |-> "MinerUnregistered", player |-> p,
                                     tokenId |-> tokenId]>>)
           ELSE /\ players' = players
                /\ ret' = Reverted("unregisterMiner", p, tokenId,
                                   "Miner not registered")
    /\ UNCHANGED <<mintVars, blockNumber, commitments, blockTaps, configVars, nftVars,
                   tokenVars>>

\* --------------------------------------------------------- reward ledger
\* Mutant: mint without the supply cap.
TokenMintResultUncapped(amount) == "ok"

\* The revert reason of MinerToken.mint(to, amount) by a minter, or "ok".
TokenMintResult(amount) ==
    IF ~(amount <= MAX_SUPPLY) THEN "MinerToken: Amount exceeds max"
    ELSE IF ~(tokenSupply <= MAX_SUPPLY - amount)
         THEN "MinerToken: Max supply exceeded"
    ELSE "ok"

\* MinerToken.mint(to, amount) by the deployer, who holds MINTER_ROLE.
tokenMint(to, amount) ==
    /\ LET result == TokenMintResult(amount)
       IN  IF result = "ok"
           THEN /\ tokenBalance' = [tokenBalance EXCEPT ![to] = @ + amount]
                /\ tokenSupply' = tokenSupply + amount
                /\ ret' = Outcome("tokenMint", Owner, <<to, amount>>, "ok", 0, 0,
                                  <<[name |-> "TokensMinted", to |-> to,
                                     amount |-> amount]>>)
           ELSE /\ UNCHANGED <<tokenBalance, tokenSupply>>
                /\ ret' = Reverted("tokenMint", Owner, <<to, amount>>, result)
    /\ UNCHANGED <<mintVars, blockNumber, gameVars, configVars, nftVars, tokenAllowance>>

\* ERC20 approve(game, amount) by p.
tokenApprove(p, amount) ==
    /\ tokenAllowance' = [tokenAllowance EXCEPT ![p] = amount]
    /\ ret' = Outcome("tokenApprove", p, amount, "ok", 0, 0, <<>>)
    /\ UNCHANGED <<mintVars, blockNumber, gameVars, configVars, nftVars, tokenBalance,
                   tokenSupply>>

\* Mutant: batchMint that checks the cap against each amount on its own.
TokenBatchMintResultEach(recipients, amounts) ==
    IF ~(Len(recipients) > 0) THEN "MinerToken: Empty arrays"
    ELSE IF ~(Len(recipients) = Len(amounts))
         THEN "MinerToken: Arrays length mismatch"
    ELSE IF \E i \in 1 .. Len(amounts) : amounts[i] > MAX_SUPPLY
         THEN "Panic(0x11)"
    ELSE IF \E i \in 1 .. Len(amounts) : ~(tokenSupply <= MAX_SUPPLY - amounts[i])
         THEN "MinerToken: Max supply exceeded"
    ELSE "ok"

\* The revert reason of MinerToken.batchMint(recipients, amounts) by a
\* minter, or "ok".  MAX_SUPPLY - totalAmount is checked arithmetic: a total
\* above MAX_SUPPLY reverts with the arithmetic panic.
TokenBatchMintResult(recipients, amounts) ==
    LET totalAmount == SumSeq(amounts, 1)
    IN  IF ~(Len(recipients) > 0) THEN "MinerToken: Empty arrays"
        ELSE IF ~(Len(recipients) = Len(amounts))
             THEN "MinerToken: Arrays length mismatch"
        ELSE IF totalAmount > MAX_SUPPLY THEN "Panic(0x11)"
        ELSE IF ~(tokenSupply <= MAX_SUPPLY - totalAmount)
             THEN "MinerToken: Max supply exceeded"
        ELSE "ok"

\* What the recipient `to` receives from the batch.
RECURSIVE BatchShare(_, _, _, _)
BatchShare(recipients, amounts, to, i) ==
    IF i > Len(recipients) THEN 0
    ELSE (IF recipients[i] = to THEN amounts[i] ELSE 0)
         + BatchShare(recipients, amounts, to, i + 1)

\* MinerToken.batchMint(recipients, amounts) by the deployer.
tokenBatchMint(recipients, amounts) ==
    /\ LET result == TokenBatchMintResult(recipients, amounts)
       IN  IF result = "ok"
           THEN /\ tokenBalance' =
                     [a \in Accounts |->
                        tokenBalance[a] + BatchShare(recipients, amounts, a, 1)]
                /\ tokenSupply' = tokenSupply + SumSeq(amounts, 1)
                /\ ret' = Outcome("tokenBatchMint", Owner, <<recipients, amounts>>,
                                  "ok", 0, 0,
                                  [i \in 1 .. Len(recipients) |->
                                     [name |-> "TokensMinted", to |-> recipients[i],
                                      amount |-> amounts[i]]])
           ELSE /\ UNCHANGED <<tokenBalance, tokenSupply>>
                /\ ret' = Reverted("tokenBatchMint", Owner, <<recipients, amounts>>,
                                   result)
    /\ UNCHANGED <<mintVars, blockNumber, gameVars, configVars, nftVars, tokenAllowance>>

\* MinerToken.burn(value) by a: ERC20Burnable's burn of the caller's own
\* tokens, then TokensBurned.
tokenBurn(a, value) ==
    /\ IF tokenBalance[a] >= value
       THEN /\ tokenBalance' = [tokenBalance EXCEPT ![a] = @ - value]
            /\ tokenSupply' = tokenSupply - value
            /\ ret' = Outcome("tokenBurn", a, value, "ok", 0, 0,
                              <<[name |-> "TokensBurned", from |-> a,
                                 amount |-> value]>>)
       ELSE /\ UNCHANGED <<tokenBalance, tokenSupply>>
            /\ ret' = Reverted("tokenBurn", a, value, "ERC20InsufficientBalance")
    /\ UNCHANGED <<mintVars, blockNumber, gameVars, configVars, nftVars, tokenAllowance>>

\* -------------------------------------------------------------- leveling
UpgradeCost(level) == (level + 1) * UPGRADE_COST_MULTIPLIER

\* The revert reason of upgrade() by p, or "ok".
UpgradeResult(p) ==
    LET cost == UpgradeCost(players[p].level)
    IN  IF Entered THEN "ReentrancyGuardReentrantCall"
        ELSE IF ~(players[p].level < MAX_LEVEL) THEN "Max level reached"
        ELSE IF ~(tokenBalance[p] >= cost) THEN "Insufficient balance"
        ELSE IF ~(tokenAllowance[p] >= cost) THEN "Insufficient allowance"
        ELSE "ok"

upgrade(p) ==
    /\ LET result == UpgradeResult(p)
           cost == UpgradeCost(players[p].level)
       IN  IF result = "ok"
           THEN /\ tokenAllowance' = [tokenAllowance EXCEPT ![p] = @ - cost]
                /\ tokenBalance' = [tokenBalance EXCEPT ![p] = @ - cost]
                /\ tokenSupply' = tokenSupply - cost
                /\ players' = [players EXCEPT ![p].level = @ + 1]
                /\ ret' = Outcome("upgrade", p, <<>>, "ok", 0, 0,
                                  <<[name |-> "TokensBurned", from |-> p,
                                     amount |-> cost],
                                    [name |-> "PlayerUpgraded", player |-> p,
                                     newLevel |-> players[p].level + 1,
                                     cost |-> cost]>>)
           ELSE /\ UNCHANGED <<tokenVars, players>>
                /\ ret' = Reverted("upgrade", p, <<>>, result)
    /\ UNCHANGED <<mintVars, blockNumber, commitments, blockTaps, configVars, nftVars>>

\* ------------------------------------------------------------- withdraw
\* Mutant: the count is never restarted.
CountedTodayStale == todaysMinted

\* todaysMinted as withdraw counts it: restarted when the day of the block
\* is not the recorded day.
CountedToday == IF today # currentDay THEN 0 ELSE todaysMinted

\* Mutant: the pending rewards are not cleared.
WithdrawnPlayerKeepsPending(player) ==
    [player EXCEPT !.totalMined = @ + player.pendingRewards]

\* Mutant: totalMined is overwritten with the amount withdrawn.
WithdrawnPlayerMinedOverwritten(player) ==
    [player EXCEPT !.pendingRewards = 0,
                   !.totalMined = player.pendingRewards]

\* The PlayerData of the caller when withdraw calls the token.
WithdrawnPlayer(player) ==
    [player EXCEPT !.pendingRewards = 0,
                   !.totalMined = @ + player.pendingRewards]

\* Mutant: withdraw is not nonReentrant.
WithdrawChecksUnguarded(p) ==
    LET amount == players[p].pendingRewards
    IN  IF ~(amount > 0) THEN "No pending rewards"
        ELSE IF ~(CountedToday + amount <= dailyMintLimit)
             THEN "Daily limit exceeded"
        ELSE "ok"

\* The revert reason of the checks of withdraw() by p that precede the
\* external mint, or "ok".
WithdrawChecks(p) ==
    LET amount == players[p].pendingRewards
    IN  IF Entered THEN "ReentrancyGuardReentrantCall"
        ELSE IF ~(amount > 0) THEN "No pending rewards"
        ELSE IF ~(CountedToday + amount <= dailyMintLimit)
             THEN "Daily limit exceeded"
        ELSE "ok"

\* The events of a withdrawal of amount by p: the token's, then the game's.
WithdrawEvents(p, amount) ==
    <<[name |-> "TokensMinted", to |-> p, amount |-> amount],
      [name |-> "Withdrawn", player |-> p, amount |-> amount]>>

\* withdraw() by p.  The token's mint makes no call back, so the call is
\* one step.
withdraw(p) ==
    /\ LET amount == players[p].pendingRewards
           checks == WithdrawChecks(p)
           result == IF checks # "ok" THEN checks ELSE TokenMintResult(amount)
       IN  IF result = "ok"
           THEN /\ currentDay' = today
                /\ todaysMinted' = CountedToday + amount
                /\ players' = [players EXCEPT ![p] = WithdrawnPlayer(@)]
                /\ tokenBalance' = [tokenBalance EXCEPT ![p] = @ + amount]
                /\ tokenSupply' = tokenSupply + amount
                /\ dayMinted' = dayMinted + amount
                /\ ret' = Outcome("withdraw", p, <<>>, "ok", 0, 0,
                                  WithdrawEvents(p, amount))
           ELSE /\ UNCHANGED <<currentDay, todaysMinted, players, tokenBalance,
                               tokenSupply, dayMinted>>
                /\ ret' = Reverted("withdraw", p, <<>>, result)
    /\ UNCHANGED <<dailyMintLimit, today, inFlight, blockNumber, commitments,
                   blockTaps, configVars, nftVars, tokenAllowance>>

\* withdraw() by p with its external call made visible, for the case that
\* code called by the token's mint calls the game back.  withdrawEnter runs
\* withdraw up to minerToken.mint: the guard is ENTERED, the effects are
\* written and the call is in flight, with what a revert has to restore.
withdrawEnter(p) ==
    /\ LET amount == players[p].pendingRewards
           checks == WithdrawChecks(p)
       IN  IF checks = "ok"
           THEN /\ currentDay' = today
                /\ todaysMinted' = CountedToday + amount
                /\ players' = [players EXCEPT ![p] = WithdrawnPlayer(@)]
                /\ inFlight' = [sender |-> p, amount |-> amount,
                                players |-> players,
                                commitments |-> commitments,
                                blockTaps |-> blockTaps,
                                currentDay |-> currentDay,
                                todaysMinted |-> todaysMinted]
                /\ ret' = Outcome("withdraw", p, <<>>, "in flight", 0, 0, <<>>)
           ELSE /\ UNCHANGED <<currentDay, todaysMinted, players, inFlight>>
                /\ ret' = Reverted("withdraw", p, <<>>, checks)
    /\ UNCHANGED <<dailyMintLimit, today, dayMinted, blockNumber, commitments,
                   blockTaps, configVars, nftVars, tokenVars>>

\* minerToken.mint runs and withdraw returns: the amount is minted and the
\* guard is released, or the mint fails and the whole call is reverted.
withdrawReturn ==
    /\ Entered
    /\ LET p == inFlight.sender
           amount == inFlight.amount
           result == TokenMintResult(amount)
       IN  IF result = "ok"
           THEN /\ tokenBalance' = [tokenBalance EXCEPT ![p] = @ + amount]
                /\ tokenSupply' = tokenSupply + amount
                /\ dayMinted' = dayMinted + amount
                /\ ret' = Outcome("withdraw", p, <<>>, "ok", 0, 0,
                                  WithdrawEvents(p, amount))
                /\ UNCHANGED <<gameVars, currentDay, todaysMinted>>
           ELSE /\ players' = inFlight.players
                /\ commitments' = inFlight.commitments
                /\ blockTaps' = inFlight.blockTaps
                /\ currentDay' = inFlight.currentDay
                /\ todaysMinted' = inFlight.todaysMinted
                /\ ret' = Reverted("withdraw", p, <<>>, result)
                /\ UNCHANGED <<tokenBalance, tokenSupply, dayMinted>>
    /\ inFlight' = NoCall
    /\ UNCHANGED <<dailyMintLimit, today, blockNumber, configVars, nftVars,
                   tokenAllowance>>

\* Mutant: setDailyLimit without onlyOwner.
SetDailyLimitResultAnyCaller(caller, newLimit) ==
    IF ~(newLimit > 0) THEN "Invalid limit"
    ELSE IF ~(newLimit <= MAX_DAILY_LIMIT) THEN "Limit too high"
    ELSE "ok"

\* Mutant: setDailyLimit without the lower bound.
SetDailyLimitResultZeroAllowed(caller, newLimit) ==
    IF caller # Owner THEN "OwnableUnauthorizedAccount"
    ELSE IF ~(newLimit <= MAX_DAILY_LIMIT) THEN "Limit too high"
    ELSE "ok"

\* The revert reason of setDailyLimit(newLimit), or "ok".
SetDailyLimitResult(caller, newLimit) ==
    IF caller # Owner THEN "OwnableUnauthorizedAccount"
    ELSE IF ~(newLimit > 0) THEN "Invalid limit"
    ELSE IF ~(newLimit <= MAX_DAILY_LIMIT) THEN "Limit too high"
    ELSE "ok"

setDailyLimit(caller, newLimit) ==
    /\ LET result == SetDailyLimitResult(caller, newLimit)
       IN  IF result = "ok"
           THEN /\ dailyMintLimit' = newLimit
                /\ ret' = Outcome("setDailyLimit", caller, newLimit, "ok", 0, 0,
                                  <<[name |-> "DailyLimitUpdated",
                                     newLimit |-> newLimit]>>)
           ELSE /\ UNCHANGED dailyMintLimit
                /\ ret' = Reverted("setDailyLimit", caller, newLimit, result)
    /\ UNCHANGED <<currentDay, todaysMinted, today, dayMinted, inFlight,
                   blockNumber, gameVars, configVars, nftVars, tokenVars>>

\* A day passes: the next block is stamped on the next day.
NextDay ==
    /\ blockNumber + 1 <= MaxBlock
    /\ today + 1 <= MaxDay
    /\ blockNumber' = blockNumber + 1
    /\ today' = today + 1
    /\ dayMinted' = 0
    /\ ret' = Outcome("nextDay", Owner, 1, "ok", 0, 0, <<>>)
    /\ UNCHANGED <<breakerVars, inFlight, gameVars, configVars, nftVars,
                   tokenVars>>

\* -----------------------------------------------------------------
\* Specifications
\* -----------------------------------------------------------------

\* The blocks in which the model lets transactions land: the first ones,
\* and the ones around the far end of the reveal window of a commitment made
\* in the first ones.  The chain jumps over the blocks in between, where a
\* commitment of the first blocks stays inside its window.
EarlyBlocks == 3
ModelledBlocks == (1 .. EarlyBlocks) \cup (MAX_REVEAL_DELAY + 1 .. MaxBlock)

\* The digests of the blocks, as the reveal reads them.
BlockHashes == {3}

\* ---- SpecCR: the commitment protocol over its whole reveal window ----
CRPlayers == {"p1"}
CRTapCounts == {0, 2, 3, MAX_TAPS_PER_CALL + 1}

\* What a player may submit as a commitment: the digest of its own or of
\* another player's (secret, nonce, taps).
CRDigests == {CommitHash(q, 1, 1, 2) : q \in Players}

\* Under SpecCR a player taps directly while its lifetime taps are below
\* MaxCRDirect and reveals while they are below MaxCRTaps.
MaxCRDirect == 1
MaxCRTaps == 4

NextCR ==
    \/ \E p \in CRPlayers, d \in CRDigests, t \in CRTapCounts : commitTap(p, d, t)
    \/ \E p \in CRPlayers, s \in Secrets, n \in Nonces, bh \in BlockHashes :
          players[p].totalTaps < MaxCRTaps /\ revealTap(p, s, n, bh)
    \/ \E p \in CRPlayers :
          players[p].totalTaps < MaxCRDirect /\ tapMine(p, 1, 1)
    \/ \E b \in ModelledBlocks : Mine(b - blockNumber)
    \/ pause(Owner)
    \/ unpause(Owner)

SpecCR == Init /\ [][NextCR]_vars

\* ---- SpecLimit: the per-call and per-block tap limits ----
LimitPlayers == {"p1"}
LimitTapCounts == {0, MAX_TAPS_PER_CALL, MAX_TAPS_PER_CALL + 1}
LimitSeeds == {1}

\* The last block mined under SpecLimit.
LimitLastBlock == 3

\* Single taps are tried where they can meet the ceiling: once the block's
\* counter is within one full batch of it.
NearCeiling(p) ==
    BlockTapsOf(p, blockNumber) >= MAX_TAPS_PER_BLOCK - MAX_TAPS_PER_CALL

NextLimit ==
    \/ \E p \in LimitPlayers, t \in LimitTapCounts, seed \in LimitSeeds :
          tapMine(p, t, seed)
    \/ \E p \in LimitPlayers, seed \in LimitSeeds :
          NearCeiling(p) /\ tapMine(p, 1, seed)
    \/ \E p \in LimitPlayers, t \in LimitTapCounts :
          commitTap(p, CommitHash(p, 1, 1, t), t)
    \/ \E p \in LimitPlayers, bh \in BlockHashes : revealTap(p, 1, 1, bh)
    \/ blockNumber < LimitLastBlock /\ Mine(1)

SpecLimit == Init /\ [][NextLimit]_vars

\* ---- SpecReward: the reward of a batch under power and level ----
RewardPlayers == {"p1"}
\* The assets minted when rewards are studied.
RewardTokens == {0, 1}
RewardTapCounts == {1, MAX_TAPS_PER_CALL}
RewardRarities == {"RARE", "LEGENDARY"}

\* Seeds whose first tap is plain (1), critical (11), critical with a gem (16).
RewardSeeds == {1, 11, 16}

\* SpecReward follows a player up to its first batch: the player sets up
\* assets and level, then taps.
RewardOpen == \A p \in RewardPlayers : players[p].totalTaps = 0

NextReward ==
    \/ \E r \in RewardRarities :
          RewardOpen /\ nftCounter \in RewardTokens /\ mintMiner("p1", r)
    \/ \E from \in RewardPlayers, to \in Players \ RewardPlayers,
             t \in RewardTokens :
          RewardOpen /\ transferMiner(from, to, t)
    \/ \E p \in RewardPlayers, t \in RewardTokens :
          RewardOpen /\ registerMiner(p, t)
    \/ \E p \in RewardPlayers, t \in RewardTokens :
          RewardOpen /\ unregisterMiner(p, t)
    \/ \E p \in RewardPlayers :
          RewardOpen /\ tokenBalance[p] = 0 /\ tokenMint(p, MaxFunding)
    \/ \E p \in RewardPlayers : RewardOpen /\ tokenApprove(p, MaxFunding)
    \/ \E p \in RewardPlayers : RewardOpen /\ upgrade(p)
    \/ \E p \in RewardPlayers, t \in RewardTapCounts, seed \in RewardSeeds :
          RewardOpen /\ tapMine(p, t, seed)

SpecReward == Init /\ [][NextReward]_vars

\* ---- SpecConfig: taps under the tables the owner can configure ----
ConfigCallers == {Owner, "p1"}
ConfigGems == GemTypes \cup {NONE}
\* The (bonus, dropChance) pairs the owner submits.
ConfigRewards ==
    {<<0, 0>>, <<MAX_GEM_BONUS, 100>>, <<MAX_GEM_BONUS + 1, 0>>, <<0, 101>>}
ConfigWeights ==
    {<<60, 25, 10, 5>>, <<0, 0, 0, 100>>, <<5, 10, 25, 60>>, <<50, 25, 10, 5>>,
     <<100>>}
ConfigTapCounts == {1, MAX_TAPS_PER_CALL}

\* Seeds whose first tap is plain (1), critical (11), critical with a ruby
\* (16) and critical with a diamond (216) under the default tables.
ConfigSeeds == {1, 11, 16, 216}

\* SpecConfig follows the game up to the first batch of p1: the owner sets
\* the tables, then p1 taps.
ConfigOpen == players["p1"].totalTaps = 0

NextConfig ==
    \/ \E g \in ConfigGems, r \in ConfigRewards :
          ConfigOpen /\ updateGemReward(Owner, g, r[1], r[2])
    \/ \E w \in ConfigWeights : ConfigOpen /\ updateCriticalWeights(Owner, w)
    \/ ConfigOpen /\ updateGemReward("p1", "RUBY", 0, 0)
    \/ ConfigOpen /\ updateCriticalWeights("p1", <<0, 0, 0, 100>>)
    \/ \E t \in ConfigTapCounts, seed \in ConfigSeeds :
          ConfigOpen /\ tapMine("p1", t, seed)

SpecConfig == Init /\ [][NextConfig]_vars

\* ---- SpecPity: dry streaks long enough for the whole pity range ----
\* A seed whose taps are all plain for a streak below 60 (1), and seeds whose
\* first tap is plain at any streak (0), critical only at the full pity
\* bonus (40) and critical at any streak (11).
PityBatchSeeds == {1}
PitySeeds == {0, 11, 40}

\* Under SpecPity a player taps full batches while its dry streak is below
\* PityBatchStreak and single taps from there on, collects at most
\* MaxPityCriticals critical hits, and the chain ends at PityLastBlock.
PityBatchStreak == 40
MaxPityCriticals == 1
PityLastBlock == 2

NextPity ==
    \/ /\ players["p1"].tapsSinceCritical < PityBatchStreak
       /\ \E seed \in PityBatchSeeds : tapMine("p1", MAX_TAPS_PER_CALL, seed)
    \/ \E seed \in PitySeeds :
          /\ players["p1"].tapsSinceCritical >= PityBatchStreak
          /\ players["p1"].criticalHits < MaxPityCriticals
          /\ tapMine("p1", 1, seed)
    \/ /\ players["p1"].tapsSinceCritical >= PityBatchStreak
       /\ players["p1"].criticalHits >= MaxPityCriticals
       /\ tapMine("p1", 1, 0)
    \/ /\ blockNumber < PityLastBlock
       /\ NearCeiling("p1")
       /\ Mine(1)

SpecPity == Init /\ [][NextPity]_vars

\* ---- SpecBonus: reveals and direct taps of a player with power ----
BonusTapCounts == {1, MAX_TAPS_PER_CALL}
BonusRarities == {"RARE", "LEGENDARY"}

\* The last block mined under SpecBonus.
BonusLastBlock == 3

\* SpecBonus follows p1 up to its first batch: it is given assets,
\* registers them, commits, and reveals or taps directly.
BonusOpen == players["p1"].totalTaps = 0

NextBonus ==
    \/ \E r \in BonusRarities :
          BonusOpen /\ nftCounter \in RewardTokens /\ mintMiner("p1", r)
    \/ \E t \in RewardTokens : BonusOpen /\ registerMiner("p1", t)
    \/ \E sec \in Secrets, n \in Nonces, t \in BonusTapCounts :
          BonusOpen /\ commitTap("p1", CommitHash("p1", sec, n, t), t)
    \/ \E sec \in Secrets, n \in Nonces, bh \in BlockHashes :
          BonusOpen /\ revealTap("p1", sec, n, bh)
    \/ \E t \in BonusTapCounts, seed \in RewardSeeds :
          BonusOpen /\ tapMine("p1", t, seed)
    \/ BonusOpen /\ blockNumber < BonusLastBlock /\ Mine(1)

SpecBonus == Init /\ [][NextBonus]_vars

\* ---- SpecWithdraw: withdrawals under the daily circuit breaker ----
\* A seed whose single tap is plain: it earns BASE_REWARD.
WithdrawSeeds == {1}

\* The limits the owner submits: none, two that a day's withdrawals can
\* reach, and one above the cap.
WithdrawLimits == {0, 15, 30, MAX_DAILY_LIMIT + 1}

\* Under SpecWithdraw a player taps while its lifetime taps are below this.
MaxWithdrawTaps == 2

NextWithdraw ==
    \/ \E p \in Players, seed \in WithdrawSeeds :
          players[p].totalTaps < MaxWithdrawTaps /\ tapMine(p, 1, seed)
    \/ \E p \in Players : withdraw(p)
    \/ \E l \in WithdrawLimits : setDailyLimit(Owner, l)
    \/ setDailyLimit("p1", 15)
    \/ NextDay

SpecWithdraw == Init /\ [][NextWithdraw]_vars

\* ---- SpecReentry: calls back into the game while withdraw mints ----
\* While a withdraw is in flight every call is a nested one, made by the
\* code the mint runs; blocks and token funding happen between calls.
ReentrySeeds == {1}

\* Under SpecReentry a player taps while its lifetime taps are below
\* MaxReentryTaps, and the chain ends at ReentryLastBlock.
MaxReentryTaps == 1
ReentryLastBlock == 3

\* The setup of SpecReentry happens in the first block, before any tap.
ReentrySetup ==
    /\ ~Entered
    /\ blockNumber = 1
    /\ \A p \in Players : players[p].totalTaps = 0

NextReentry ==
    \/ \E p \in Players, seed \in ReentrySeeds :
          players[p].totalTaps < MaxReentryTaps /\ tapMine(p, 1, seed)
    \/ \E p \in Players : withdrawEnter(p)
    \/ withdrawReturn
    \/ \E bh \in BlockHashes : revealTap("p1", 1, 1, bh)
    \/ upgrade("p1")
    \/ ReentrySetup /\ commitTap("p1", CommitHash("p1", 1, 1, 1), 1)
    \/ ReentrySetup /\ tokenBalance["p1"] = 0 /\ tokenMint("p1", MaxFunding)
    \/ ReentrySetup /\ tokenApprove("p1", MaxFunding)
    \/ ~Entered /\ blockNumber < ReentryLastBlock /\ Mine(1)

SpecReentry == Init /\ [][NextReentry]_vars

\* ---- SpecRegistry: registering assets up to MAX_REGISTERED_MINERS ----
\* The assets with which the failing calls are tried: the two oldest and
\* the one beyond the limit.
RegistryProbes == {0, 1, MAX_REGISTERED_MINERS}
RegistryUnregistered == {0, 1}

\* Assets are unregistered while the list is short or full.
RegistryEarly == 3

\* The list holds the ids 0, 1, ... in the order of minting.
InOrder(miners) == \A i \in 1 .. Len(miners) : miners[i] = i - 1

\* The lowest asset that p has not registered and that no one else owns.
IsNextAsset(p, t) ==
    LET free(u) == /\ ~IsRegistered(players[p].registeredMiners, u)
                   /\ nftOwner[u] \in {p, NoOwner}
    IN  free(t) /\ \A u \in TokenIds : u < t => ~free(u)

\* "p1" receives assets one by one and registers them as they come; both
\* players try the probes at every point; "p1" hands asset 0 to "p2" once
\* it is registered.
NextRegistry ==
    \/ /\ nftCounter <= Len(players["p1"].registeredMiners) + 1
       /\ mintMiner("p1", "COMMON")
    \/ \E t \in TokenIds : IsNextAsset("p1", t) /\ registerMiner("p1", t)
    \/ \E p \in Players, t \in RegistryProbes : registerMiner(p, t)
    \/ \E t \in RegistryUnregistered :
          /\ InOrder(players["p1"].registeredMiners)
          /\ \/ Len(players["p1"].registeredMiners) <= RegistryEarly
             \/ Len(players["p1"].registeredMiners) = MAX_REGISTERED_MINERS
          /\ unregisterMiner("p1", t)
    \/ /\ IsRegistered(players["p1"].registeredMiners, 0)
       /\ transferMiner("p1", "p2", 0)

SpecRegistry == Init /\ [][NextRegistry]_vars

\* ---- SpecPower: power changes between the batches of one player ----
\* Asset 0 is RARE and asset 1 LEGENDARY.
PowerRarities == <<"RARE", "LEGENDARY">>
\* A seed whose taps are plain.
PowerSeeds == {1}
PowerTapCounts == {1}
\* The asset "p1" gives away and the asset it unregisters.
PowerTransferred == {0}
PowerUnregistered == {1}

\* The taps "p1" makes under SpecPower.
MaxPowerTaps == 2

\* SpecPower follows "p1" through MaxPowerTaps batches; between them it
\* makes the calls that change its power, each when it succeeds.  It may
\* commit before anything else, and blocks are mined until the reveal is
\* possible.
PowerOpen == players["p1"].totalTaps < MaxPowerTaps

NextPower ==
    \/ /\ PowerOpen /\ nftCounter \in RewardTokens
       /\ mintMiner("p1", PowerRarities[nftCounter + 1])
    \/ \E t \in PowerTransferred :
          /\ PowerOpen /\ IsRegistered(players["p1"].registeredMiners, t)
          /\ transferMiner("p1", "p2", t)
    \/ \E t \in RewardTokens :
          /\ PowerOpen /\ RegisterMinerResult("p1", t) = "ok"
          /\ registerMiner("p1", t)
    \/ \E t \in PowerUnregistered :
          /\ PowerOpen /\ IsRegistered(players["p1"].registeredMiners, t)
          /\ unregisterMiner("p1", t)
    \/ /\ PowerOpen /\ players["p1"].level = 0 /\ tokenBalance["p1"] = 0
       /\ tokenMint("p1", UPGRADE_COST_MULTIPLIER)
    \/ /\ PowerOpen /\ tokenBalance["p1"] > tokenAllowance["p1"]
       /\ tokenApprove("p1", UPGRADE_COST_MULTIPLIER)
    \/ PowerOpen /\ UpgradeResult("p1") = "ok" /\ upgrade("p1")
    \/ \E t \in PowerTapCounts, seed \in PowerSeeds :
          PowerOpen /\ tapMine("p1", t, seed)
    \/ \E t \in PowerTapCounts :
          /\ PowerOpen /\ CommitTapResult("p1", t) = "ok"
          /\ nftCounter = 0 /\ players["p1"].totalTaps = 0
          /\ commitTap("p1", CommitHash("p1", 1, 1, t), t)
    \/ \E bh \in BlockHashes :
          /\ PowerOpen /\ RevealTapResult("p1", 1, 1) = "ok"
          /\ revealTap("p1", 1, 1, bh)
    \/ /\ PowerOpen
       /\ commitments["p1"].blockNumber # 0 /\ ~commitments["p1"].revealed
       /\ ~RevealHashAvailable(commitments["p1"], blockNumber)
       /\ Mine(1)

SpecPower == Init /\ [][NextPower]_vars

\* ---- SpecUpgrade: a player levels up to MAX_LEVEL ----
\* "p1" is funded for its next level, exactly or with one MINE to spare,
\* approves the cost or one MINE less, and calls upgrade at every point.
NextCost == UpgradeCost(players["p1"].level)

NextUpgrade ==
    \/ \E spare \in {0, 1} :
          /\ players["p1"].level < MAX_LEVEL
          /\ tokenBalance["p1"] < NextCost
          /\ tokenMint("p1", NextCost - tokenBalance["p1"] + spare)
    \/ \E short \in {0, 1} :
          /\ players["p1"].level < MAX_LEVEL
          /\ tokenAllowance["p1"] < NextCost - short
          /\ tokenApprove("p1", NextCost - short)
    \/ upgrade("p1")

SpecUpgrade == Init /\ [][NextUpgrade]_vars

\* ---- SpecPause: the player-facing calls while paused and after ----
PauseSeeds == {1}
\* The taps "p1" makes under SpecPause.
MaxPauseTaps == 2

\* Before the owner first pauses, "p1" is given an asset and the MINE to
\* level up, and approves it.  Blocks are mined until a pending commitment
\* can be revealed.
PauseSetup == ~paused /\ players["p1"].totalTaps = 0

NextPause ==
    \/ pause(Owner)
    \/ unpause(Owner)
    \/ /\ PauseSetup /\ nftCounter = 0
       /\ mintMiner("p1", "COMMON")
    \/ /\ PauseSetup /\ nftCounter = 1 /\ tokenBalance["p1"] = 0
       /\ players["p1"].level = 0
       /\ tokenMint("p1", UPGRADE_COST_MULTIPLIER)
    \/ /\ PauseSetup /\ tokenBalance["p1"] > tokenAllowance["p1"]
       /\ tokenApprove("p1", UPGRADE_COST_MULTIPLIER)
    \/ \E seed \in PauseSeeds :
          players["p1"].totalTaps < MaxPauseTaps /\ tapMine("p1", 1, seed)
    \/ /\ paused \/ commitments["p1"].blockNumber = 0
       /\ commitTap("p1", CommitHash("p1", 1, 1, 1), 1)
    \/ \E bh \in BlockHashes :
          players["p1"].totalTaps < MaxPauseTaps /\ revealTap("p1", 1, 1, bh)
    \/ withdraw("p1")
    \/ nftCounter = 1 /\ registerMiner("p1", 0)
    \/ nftCounter = 1 /\ unregisterMiner("p1", 0)
    \/ tokenAllowance["p1"] > 0 /\ upgrade("p1")
    \/ /\ commitments["p1"].blockNumber # 0 /\ ~commitments["p1"].revealed
       /\ ~RevealHashAvailable(commitments["p1"], blockNumber)
       /\ Mine(1)

SpecPause == Init /\ [][NextPause]_vars

\* ---- SpecAdmin: the owner, a player and the administrative state ----
AdminCallers == {Owner, "p1"}
\* Valid values, different from the defaults, that the callers submit.
AdminLimits == {15}
AdminGemRewards == {<<1, 10>>}
AdminWeights == {<<0, 0, 0, 100>>}
AdminSeeds == {1}

NextAdmin ==
    \/ \E c \in AdminCallers : pause(c)
    \/ \E c \in AdminCallers : unpause(c)
    \/ \E c \in AdminCallers : emergencyPause(c)
    \/ \E c \in AdminCallers, l \in AdminLimits : setDailyLimit(c, l)
    \/ \E c \in AdminCallers, r \in AdminGemRewards :
          updateGemReward(c, "RUBY", r[1], r[2])
    \/ \E c \in AdminCallers, w \in AdminWeights : updateCriticalWeights(c, w)
    \/ \E seed \in AdminSeeds :
          players["p1"].totalTaps = 0 /\ tapMine("p1", 1, seed)
    \/ commitTap("p1", CommitHash("p1", 1, 1, 1), 1)
    \/ \E bh \in BlockHashes : revealTap("p1", 1, 1, bh)
    \/ withdraw("p1")
    \/ registerMiner("p1", 0)
    \/ unregisterMiner("p1", 0)
    \/ upgrade("p1")

SpecAdmin == Init /\ [][NextAdmin]_vars

\* -----------------------------------------------------------------
\* Claims
\* -----------------------------------------------------------------

\* The stored commitment of p is pending: made and not revealed.
Pending(p) == commitments[p].blockNumber # 0 /\ ~commitments[p].revealed

\* Everything a player-facing call may change is left as it was.
NothingChanges ==
    /\ UNCHANGED <<mintVars, blockNumber, gameVars, configVars, nftVars, tokenVars>>

\* C1: a player never holds two pending commitments.  commitTap succeeds
\* only when the caller's stored commitment is empty (blockNumber = 0) or
\* revealed, and then replaces it by one pending commitment; while a
\* commitment is pending the call fails, with 'Pending commitment' when it
\* got as far as that check, and the stored hash, block, tap count and
\* revealed flag stay as they were.
C1_NoSecondPendingCommitment ==
    [][\A p \in Players :
         (ret'.op = "commitTap" /\ ret'.sender = p) =>
            /\ ret'.result = "ok" =>
                  /\ ~Pending(p)
                  /\ commitments'[p].blockNumber = blockNumber
                  /\ commitments'[p].taps = ret'.arg
                  /\ ~commitments'[p].revealed
            /\ Pending(p) =>
                  /\ ret'.result # "ok"
                  /\ commitments' = commitments
                  /\ (~paused /\ ret'.arg \in 1 .. MAX_TAPS_PER_CALL)
                        => ret'.result = "Pending commitment"
            /\ ret'.result = "Pending commitment" => Pending(p)]_vars

\* C1 witness: a second commitTap was rejected while the first commitment
\* was still unrevealed.
C1_Witness ==
    /\ ret.op = "commitTap"
    /\ ret.result = "Pending commitment"
    /\ Pending(ret.sender)

\* The secret and nonce in (s, n) open the stored commitment of p.
Opens(p, s, n) ==
    commitments[p].hash = CommitHash(p, s, n, commitments[p].taps)

\* C2 (as claimed): a reveal with the correct secret and nonce exactly
\* COMMIT_DELAY = 1 period after the commit, game not paused, period tap
\* ceiling not hit, succeeds: the commitment becomes revealed and its taps
\* are executed.
C2_RevealAtExactDelaySucceeds ==
    [][\A p \in Players :
         (/\ ret'.op = "revealTap" /\ ret'.sender = p
          /\ Pending(p)
          /\ Opens(p, ret'.arg[1], ret'.arg[2])
          /\ blockNumber = commitments[p].blockNumber + COMMIT_REVEAL_BLOCKS
          /\ ~paused
          /\ BlockTapsOf(p, blockNumber) + commitments[p].taps
                <= MAX_TAPS_PER_BLOCK)
         => /\ ret'.result = "ok"
            /\ commitments'[p].revealed
            /\ players'[p].totalTaps
                  = players[p].totalTaps + commitments[p].taps]_vars

\* The commitment of p can no longer be revealed: the block is past
\* blockNumber + MAX_REVEAL_DELAY, so from now on every reveal fails with
\* 'Too late' or 'Block hash not available'.
Unsalvageable(p) ==
    /\ Pending(p)
    /\ blockNumber > commitments[p].blockNumber + MAX_REVEAL_DELAY

\* C3 (as claimed): once a player's unrevealed commitment is unsalvageable,
\* a commitTap of that player with a valid tap count succeeds.
C3_ExpiredCommitmentCanBeReplaced ==
    [][\A p \in Players :
         (/\ ret'.op = "commitTap" /\ ret'.sender = p
          /\ Unsalvageable(p)
          /\ ~paused
          /\ ret'.arg \in 1 .. MAX_TAPS_PER_CALL)
         => ret'.result = "ok"]_vars

WindowErrors == {"Too early", "Block hash not available", "Too late"}

\* C4 (as claimed): with an unrevealed commitment recorded at period c, a
\* reveal at n < c + COMMIT_DELAY fails with 'Too early' and changes
\* nothing, and a reveal at the first period that satisfies the delay,
\* n = c + COMMIT_DELAY, fails with no window error.
C4_EarlyWindow ==
    [][\A p \in Players :
         (/\ ret'.op = "revealTap" /\ ret'.sender = p
          /\ Pending(p)
          /\ ~paused)
         => /\ blockNumber < commitments[p].blockNumber + COMMIT_REVEAL_BLOCKS
                  => ret'.result = "Too early" /\ NothingChanges
            /\ blockNumber = commitments[p].blockNumber + COMMIT_REVEAL_BLOCKS
                  => ret'.result \notin WindowErrors]_vars
\* C5: with an unrevealed commitment recorded at period c, a reveal at any
\* n > c + COMMIT_DELAY + MAX_REVEAL_DELAY fails with 'Block hash not
\* available', never with 'Too late': the digest of period c + COMMIT_DELAY
\* (available only in the 256 periods after it) is tested before the upper
\* bound n <= c + MAX_REVEAL_DELAY.  'Too late' is reported only when that
\* digest is still available and n > c + MAX_REVEAL_DELAY, and the three
\* window errors are reported in three disjoint ranges of n.
C5_WindowErrorsDistinct ==
    [][\A p \in Players :
         (/\ ret'.op = "revealTap" /\ ret'.sender = p
          /\ Pending(p)
          /\ ~paused)
         => LET c == commitments[p].blockNumber
                n == blockNumber
                digestBlock == c + COMMIT_REVEAL_BLOCKS
                available == digestBlock < n /\ n <= digestBlock + BLOCKHASH_WINDOW
            IN  /\ n > c + COMMIT_REVEAL_BLOCKS + MAX_REVEAL_DELAY
                      => ret'.result = "Block hash not available"
                /\ ret'.result = "Too early" <=> n < digestBlock
                /\ ret'.result = "Block hash not available"
                      <=> (n >= digestBlock /\ ~available)
                /\ ret'.result = "Too late"
                      <=> (available /\ n > c + MAX_REVEAL_DELAY)
                /\ ret'.result \in WindowErrors => NothingChanges]_vars

\* C5 witness: a reveal made after the whole window, at
\* n > c + COMMIT_DELAY + MAX_REVEAL_DELAY, failed on the missing digest.
C5_Witness ==
    /\ ret.op = "revealTap"
    /\ ret.result = "Block hash not available"
    /\ Pending(ret.sender)
    /\ blockNumber > commitments[ret.sender].blockNumber
                        + COMMIT_REVEAL_BLOCKS + MAX_REVEAL_DELAY

\* C6: each commitment is executed at most once.  A successful reveal marks
\* the commitment revealed; from then on, until the player commits again,
\* every reveal of that player (any secret, nonce and period) fails, with
\* 'Already revealed' when the game is not paused, and adds no taps and no
\* rewards.
C6_NoDoubleReveal ==
    [][\A p \in Players :
         (ret'.op = "revealTap" /\ ret'.sender = p) =>
            /\ ret'.result = "ok" => ~commitments[p].revealed
                                     /\ commitments'[p].revealed
            /\ (commitments[p].blockNumber > 0 /\ commitments[p].revealed) =>
                  /\ ret'.result # "ok"
                  /\ ~paused => ret'.result = "Already revealed"
                  /\ ret'.taps = 0 /\ ret'.reward = 0
                  /\ NothingChanges]_vars

\* C6 witness: a second reveal of an executed commitment was rejected.
C6_Witness ==
    /\ ret.op = "revealTap"
    /\ ret.result = "Already revealed"
    /\ players[ret.sender].totalTaps = commitments[ret.sender].taps

\* The block is inside the window in which the checks of revealTap that
\* precede the digest comparison pass.
InRevealWindow(p) ==
    /\ blockNumber > commitments[p].blockNumber + COMMIT_REVEAL_BLOCKS
    /\ blockNumber <= commitments[p].blockNumber + MAX_REVEAL_DELAY

\* C7: inside the reveal window a reveal succeeds only if
\* hash(caller, secret, nonce, stored tap count) is the stored digest.  With
\* a wrong secret, a wrong nonce, a digest bound to another caller or to
\* another tap count it fails with 'Invalid reveal', the commitment stays
\* unrevealed and nothing changes; a reveal with the values that open the
\* commitment is then still accepted.
C7_InvalidReveal ==
    [][\A p \in Players :
         (/\ ret'.op = "revealTap" /\ ret'.sender = p
          /\ Pending(p)
          /\ InRevealWindow(p)
          /\ ~paused)
         => /\ ret'.result = "ok" => Opens(p, ret'.arg[1], ret'.arg[2])
            /\ ~Opens(p, ret'.arg[1], ret'.arg[2]) =>
                  /\ ret'.result = "Invalid reveal"
                  /\ ~commitments'[p].revealed
                  /\ NothingChanges
            /\ (/\ Opens(p, ret'.arg[1], ret'.arg[2])
                /\ BlockTapsOf(p, blockNumber) + commitments[p].taps
                      <= MAX_TAPS_PER_BLOCK)
                  => ret'.result = "ok"]_vars

\* C7 witness: a reveal with a wrong secret or nonce was rejected for a
\* commitment that the right values open, inside the window.
C7_Witness ==
    /\ ret.op = "revealTap"
    /\ ret.result = "Invalid reveal"
    /\ InRevealWindow(ret.sender)
    /\ \E s \in Secrets, n \in Nonces :
          Opens(ret.sender, s, n) /\ <<s, n>> # ret.arg
\* C8: for every player and block the taps executed through tapMine and
\* revealTap together never exceed MAX_TAPS_PER_BLOCK (100).  A successful
\* batch adds exactly its taps to the block's counter, no other call moves
\* the counter, and the call that would cross the ceiling fails as a whole,
\* with 'Block limit exceeded', leaving the counter, pendingRewards,
\* totalTaps, criticalHits, tapsSinceCritical, lastTapBlock and the
\* commitment's revealed flag as they were.
C8_BlockCeiling ==
    [][/\ \A p \in Players :
            (ret'.op \in {"tapMine", "revealTap"} /\ ret'.sender = p) =>
               LET used == BlockTapsOf(p, blockNumber)
                   batch == IF ret'.op = "tapMine" THEN ret'.arg
                            ELSE commitments[p].taps
               IN  /\ ret'.result = "ok" =>
                         /\ used + batch <= MAX_TAPS_PER_BLOCK
                         /\ ret'.taps = batch
                         /\ blockTaps'[p][blockNumber] = used + batch
                         /\ \A b \in DOMAIN blockTaps[p] \ {blockNumber} :
                               blockTaps'[p][b] = blockTaps[p][b]
                   /\ used + batch > MAX_TAPS_PER_BLOCK =>
                         /\ ret'.result # "ok"
                         /\ NothingChanges
                         /\ (ret'.op = "tapMine" /\ ~paused
                             /\ batch \in 1 .. MAX_TAPS_PER_CALL)
                               => ret'.result = "Block limit exceeded"
                   /\ ret'.result = "Block limit exceeded" =>
                         /\ used + batch > MAX_TAPS_PER_BLOCK
                         /\ NothingChanges
       /\ ret'.op \notin {"tapMine", "revealTap"} => blockTaps' = blockTaps
       /\ \A p \in Players : \A b \in DOMAIN blockTaps'[p] :
             blockTaps'[p][b] <= MAX_TAPS_PER_BLOCK]_vars

\* C8 witness: a reveal that would have crossed the ceiling was rejected in
\* a block whose counter direct taps had filled.
C8_Witness ==
    /\ ret.op = "revealTap"
    /\ ret.result = "Block limit exceeded"
    /\ Pending(ret.sender)
    /\ BlockTapsOf(ret.sender, blockNumber) + commitments[ret.sender].taps
          > MAX_TAPS_PER_BLOCK

\* C9: tapMine and commitTap accept a tap count only in 1 .. 20.  With 0 or
\* more than 20 they fail with 'Invalid tap count' and change nothing; so
\* every stored commitment has 1 <= taps <= 20 and every executed batch has
\* 1 .. 20 taps.
C9_TapCountRange ==
    [][/\ \A p \in Players :
            (ret'.op \in {"tapMine", "commitTap"} /\ ret'.sender = p) =>
               /\ (~paused /\ ret'.arg \notin 1 .. MAX_TAPS_PER_CALL) =>
                     ret'.result = "Invalid tap count" /\ NothingChanges
               /\ ret'.result = "ok" => ret'.arg \in 1 .. MAX_TAPS_PER_CALL
       /\ \A p \in Players :
            commitments'[p].blockNumber > 0 =>
               commitments'[p].taps \in 1 .. MAX_TAPS_PER_CALL
       /\ (ret'.op \in {"tapMine", "revealTap"} /\ ret'.result = "ok") =>
             /\ ret'.taps \in 1 .. MAX_TAPS_PER_CALL
             /\ players'[ret'.sender].totalTaps
                   = players[ret'.sender].totalTaps + ret'.taps]_vars

\* C9 witness: a commitTap with 21 taps was rejected.
C9_Witness ==
    /\ ret.op = "commitTap"
    /\ ret.result = "Invalid tap count"
    /\ ret.arg = MAX_TAPS_PER_CALL + 1
\* The total power of the assets that p has registered and owns.
RegisteredOwned(p) ==
    {t \in TokenIds : /\ IsRegistered(players[p].registeredMiners, t)
                      /\ nftOwner[t] = p}

RECURSIVE PowerOfSet(_)
PowerOfSet(S) ==
    IF S = {} THEN 0
    ELSE LET t == CHOOSE x \in S : TRUE
         IN  _getPowerByRarity(nftRarity[t]) + PowerOfSet(S \ {t})

\* C10: a successful direct tap of tapCount taps (1 to 20) by a player
\* whose owned registered assets have total power P and whose level is L
\* yields a reward of at least BASE_REWARD * (P * (L + 1) + 1) * tapCount,
\* whatever the seed.
C10_MinReward ==
    [][\A p \in Players :
         (ret'.op = "tapMine" /\ ret'.sender = p /\ ret'.result = "ok")
         => /\ ret'.taps \in 1 .. MAX_TAPS_PER_CALL
            /\ ret'.reward >=
                 BASE_REWARD
                   * (PowerOfSet(RegisteredOwned(p)) * (players[p].level + 1)
                      + 1)
                   * ret'.taps]_vars

\* A player of level 1 or more who owns a registered asset and has given
\* away another one taps a full batch.
C10_Witness ==
    /\ ret.op = "tapMine" /\ ret.result = "ok"
    /\ ret.taps = MAX_TAPS_PER_CALL
    /\ players[ret.sender].level >= 1
    /\ RegisteredOwned(ret.sender) # {}
    /\ \E t \in TokenIds :
          /\ IsRegistered(players[ret.sender].registeredMiners, t)
          /\ nftOwner[t] # ret.sender
    /\ ret.reward = BASE_REWARD * (players[ret.sender].totalPower + 1)
                      * ret.taps
\* The sum of the bonuses of the GemFound events of a call.
RECURSIVE GemSum(_, _)
GemSum(events, i) ==
    IF i > Len(events) THEN 0
    ELSE (IF events[i].name = "GemFound" THEN events[i].bonus ELSE 0)
         + GemSum(events, i + 1)

\* The largest reward the multipliers alone give a batch of taps of p.
MultiplierBound(p, taps) ==
    BASE_REWARD
      * (PowerOfSet(RegisteredOwned(p)) * (players[p].level + 1) + 1)
      * taps * 50

\* C11 (as claimed): a successful direct tap of tapCount taps by a player
\* with power P and level L yields a reward of at most
\* BASE_REWARD * (P * (L + 1) + 1) * tapCount * 50, for every seed and every
\* gem table and critical weight table the owner can configure.
C11_MaxReward ==
    [][\A p \in Players :
         (ret'.op = "tapMine" /\ ret'.sender = p /\ ret'.result = "ok")
         => ret'.reward <= MultiplierBound(p, ret'.taps)]_vars

\* C11 (amended): the bound holds for the reward without the bonuses of the
\* gems found; each critical tap can add one gem bonus on top, and a bonus
\* is at most MAX_GEM_BONUS, so the whole reward is at most the bound plus
\* tapCount * MAX_GEM_BONUS.
C11_MaxRewardWithoutGems ==
    [][\A p \in Players :
         (ret'.op = "tapMine" /\ ret'.sender = p /\ ret'.result = "ok")
         => /\ ret'.reward - GemSum(ret'.events, 1)
                  <= MultiplierBound(p, ret'.taps)
            /\ ret'.reward
                  <= MultiplierBound(p, ret'.taps) + ret'.taps * MAX_GEM_BONUS]_vars

\* A tap under the default tables finds a diamond and earns more than 50
\* times the base reward.
C11_Witness ==
    /\ ret.op = "tapMine" /\ ret.result = "ok" /\ ret.taps = 1
    /\ criticalWeights = <<60, 25, 10, 5>>
    /\ gemRewards["DIAMOND"].bonus = 2000
    /\ GemSum(ret.events, 1) = 2000
    /\ ret.reward > BASE_REWARD * 50
\* The values of tapsSinceCritical that give every pity bonus once: none up
\* to the threshold, the maximum from 25 taps past it.
PityRange ==
    PITY_THRESHOLD .. PITY_THRESHOLD + MAX_PITY_BONUS \div PITY_INCREMENT

\* The sub-seeds whose criticality draw (seed % 100) is r.
SubSeedsOf(r) == {r + 100 * k : k \in 0 .. SeedSpace \div 100 - 1}

\* C12 (as claimed): every multiplier whose weight is not zero is the
\* outcome of some critical tap: there is a sub-seed and a dry streak for
\* which the tap is critical and _selectMultiplier returns that multiplier.
\* Under the default weights 60/25/10/5 that is each of 2, 5, 10 and 50.
C12_EveryWeightedMultiplierOccurs ==
    \A i \in 1 .. 4 :
        criticalWeights[i] > 0
        => \E r \in 0 .. 99, n \in PityRange :
              /\ IsCriticalTap(r, n)
              /\ _selectMultiplier(criticalWeights, r) = criticalMultipliers[i]

\* A sub-seed drops a gem on a critical tap: the gem check passes and the
\* table selects a gem.
DropsGem(randomSeed) ==
    GemRoll(randomSeed) /\ _selectGem(gemRewards, randomSeed \div 256) # NONE

\* C13 (as claimed): the gem-drop roll does not depend on the criticality
\* draw: for every value r of seed % 100 that makes a tap critical, some
\* sub-seed with that draw drops a gem and some sub-seed with that draw
\* drops none.
C13_GemRollIndependent ==
    \A r \in 0 .. 99, n \in PityRange :
        IsCriticalTap(r, n)
        => /\ \E sub \in SubSeedsOf(r) : DropsGem(sub)
           /\ \E sub \in SubSeedsOf(r) : ~DropsGem(sub)
\* C14: the pity bonus is 0 for every dry streak n <= 50 and
\* min((n - 50) * 2, 50) above it (2 at 51, 48 at 74, 50 from 75 on); the
\* critical chance of a tap is 10 + pity and never above 60; and the shared
\* library's calculatePityBonus(n, 50, 2, 50) returns the contract's value.
\* Checked for every n up to the streak a player has reached.
C14_PityBonus ==
    \A p \in Players :
        /\ \A n \in 0 .. players[p].tapsSinceCritical :
              LET bonus == _calculatePityBonus(n)
              IN  /\ n <= 50 => bonus = 0
                  /\ n > 50 => bonus = Min((n - 50) * 2, 50)
                  /\ n = 51 => bonus = 2
                  /\ n = 74 => bonus = 48
                  /\ n >= 75 => bonus = 50
                  /\ CRITICAL_BASE_CHANCE + bonus <= 60
                  /\ calculatePityBonus(n, 50, 2, 50) = bonus
        /\ LET n == players[p].tapsSinceCritical
               chance == calculateCriticalChance(CRITICAL_BASE_CHANCE,
                                                 _calculatePityBonus(n))
           IN  \A r \in 0 .. 99 : IsCriticalTap(r, n) <=> r < chance

\* A dry streak has passed the point where the bonus is capped.
C14_Witness ==
    /\ ret.op = "tapMine" /\ ret.result = "ok"
    /\ players["p1"].tapsSinceCritical > 75
\* C15: the per-tap base reward is computed once per call as
\* BASE_REWARD * (totalPower + 1) and, on the reveal path only, scaled to
\* floor(that * 110 / 100).  A reveal earns, gem bonuses apart, 110% of what
\* a direct tap with the same power, tap count and per-tap outcomes (the
\* same seed) earns, and at least tapCount times 110% of the direct base.
C15_RevealBonus ==
    [][\A p \in Players :
         (ret'.op = "revealTap" /\ ret'.sender = p /\ ret'.result = "ok")
         => \E bh \in BlockHashes :
               LET seed == RevealSeed(bh, ret'.arg[1], ret'.arg[2], p)
                   direct == _executeTaps(p, ret'.taps, seed, FALSE)
                   totalPower == PowerOfSet(RegisteredOwned(p))
                                   * (players[p].level + 1)
                   base == BASE_REWARD * (totalPower + 1)
               IN  /\ direct.result = "ok"
                   /\ BaseTapReward(totalPower, FALSE) = base
                   /\ BaseTapReward(totalPower, TRUE) = (base * 110) \div 100
                   /\ BaseTapReward(totalPower, TRUE) * 100 = base * 110
                   /\ GemSum(ret'.events, 1) = GemSum(direct.events, 1)
                   /\ (ret'.reward - GemSum(ret'.events, 1)) * 100
                         = (direct.reward - GemSum(direct.events, 1)) * 110
                   /\ ret'.reward >= ((base * 110) \div 100) * ret'.taps]_vars

\* A player with power reveals a batch in which a gem was found.
C15_Witness ==
    /\ ret.op = "revealTap" /\ ret.result = "ok"
    /\ ret.taps = MAX_TAPS_PER_CALL
    /\ players[ret.sender].totalPower > 0
    /\ GemSum(ret.events, 1) > 0
\* The Tapped events among the events of a call.
TappedEvents(events) ==
    {i \in 1 .. Len(events) : events[i].name = "Tapped"}

\* C16: a successful batch of tapCount taps, direct or revealed, adds
\* tapCount to the caller's totalTaps and to its counter of the current
\* block, adds the batch's reward to pendingRewards, sets lastTapBlock to
\* the current block, emits exactly one Tapped event carrying (tapCount,
\* reward, whether a tap of the batch was critical), and mints no tokens.
C16_BatchBookkeeping ==
    [][\A p \in Players :
         (/\ ret'.op \in {"tapMine", "revealTap"}
          /\ ret'.sender = p /\ ret'.result = "ok")
         => /\ ret'.taps = (IF ret'.op = "tapMine" THEN ret'.arg
                            ELSE commitments[p].taps)
            /\ players'[p].totalTaps = players[p].totalTaps + ret'.taps
            /\ players'[p].pendingRewards
                  = players[p].pendingRewards + ret'.reward
            /\ players'[p].lastTapBlock = blockNumber
            /\ blockTaps'[p][blockNumber]
                  = BlockTapsOf(p, blockNumber) + ret'.taps
            /\ \A b \in DOMAIN blockTaps[p] \ {blockNumber} :
                  blockTaps'[p][b] = blockTaps[p][b]
            /\ Cardinality(TappedEvents(ret'.events)) = 1
            /\ \A i \in TappedEvents(ret'.events) :
                  /\ ret'.events[i].player = p
                  /\ ret'.events[i].taps = ret'.taps
                  /\ ret'.events[i].reward = ret'.reward
                  /\ ret'.events[i].critical
                        <=> players'[p].criticalHits > players[p].criticalHits
            /\ UNCHANGED <<tokenVars, mintVars>>
            /\ \A q \in Players \ {p} :
                  players'[q] = players[q] /\ blockTaps'[q] = blockTaps[q]]_vars

\* A reveal with a critical tap adds to rewards that earlier batches left
\* pending.
C16_Witness ==
    /\ ret.op = "revealTap" /\ ret.result = "ok"
    /\ \E i \in TappedEvents(ret.events) : ret.events[i].critical
    /\ players[ret.sender].totalTaps > ret.taps
    /\ players[ret.sender].pendingRewards > ret.reward
\* The amount of the Withdrawn event of a successful withdraw.
WithdrawnAmount(events) == events[Len(events)].amount

\* C17: withdraw fails with 'No pending rewards' when the caller's
\* pendingRewards is 0; a successful withdraw of pendingRewards = a > 0 sets
\* pendingRewards to 0, adds a to totalMined and mints a to the caller; so a
\* withdraw right after a successful one of the same caller fails.
C17_Withdraw ==
    [][\A p \in Players :
         (ret'.op = "withdraw" /\ ret'.sender = p)
         => LET a == players[p].pendingRewards
            IN  /\ a = 0 => ret'.result = "No pending rewards"
                /\ ret'.result # "ok" => NothingChanges
                /\ ret'.result = "ok"
                   => /\ a > 0
                      /\ players'[p].pendingRewards = 0
                      /\ players'[p].totalMined = players[p].totalMined + a
                      /\ tokenBalance'[p] = tokenBalance[p] + a
                      /\ tokenSupply' = tokenSupply + a
                      /\ WithdrawnAmount(ret'.events) = a
                      /\ \A q \in Accounts \ {p} :
                            tokenBalance'[q] = tokenBalance[q]
                /\ (ret.op = "withdraw" /\ ret.sender = p /\ ret.result = "ok")
                   => ret'.result = "No pending rewards"]_vars

\* A player has withdrawn for the second time.
C17_Witness ==
    /\ ret.op = "withdraw" /\ ret.result = "ok"
    /\ players[ret.sender].pendingRewards = 0
    /\ players[ret.sender].totalMined > WithdrawnAmount(ret.events)
    /\ tokenBalance[ret.sender] = players[ret.sender].totalMined

\* C18: what the withdraw calls of all players mint within one day never
\* exceeds the dailyMintLimit in force at each withdrawal.  A withdraw with
\* todaysMinted + amount > dailyMintLimit fails with 'Daily limit exceeded'
\* and changes nothing, and todaysMinted restarts from 0 at the first
\* withdraw whose day differs from the recorded day.
C18_DailyLimit ==
    [][\A p \in Players :
         (ret'.op = "withdraw" /\ ret'.sender = p
          /\ players[p].pendingRewards > 0)
         => LET a == players[p].pendingRewards
                counted == IF today = currentDay THEN todaysMinted ELSE 0
            IN  /\ counted + a > dailyMintLimit
                   => ret'.result = "Daily limit exceeded" /\ NothingChanges
                /\ counted + a <= dailyMintLimit => ret'.result = "ok"
                /\ ret'.result = "ok"
                   => /\ currentDay' = today
                      /\ todaysMinted' = counted + a
                      /\ today # currentDay => todaysMinted' = a
                      /\ dayMinted' = todaysMinted'
                      /\ dayMinted' <= dailyMintLimit]_vars

\* On a later day, after the count restarted, a withdrawal is refused
\* because of what another one minted that day.
C18_Witness ==
    /\ ret.op = "withdraw" /\ ret.result = "Daily limit exceeded"
    /\ today > 0 /\ currentDay = today
    /\ todaysMinted > 0
    /\ todaysMinted + players[ret.sender].pendingRewards > dailyMintLimit
\* The functions of the game that carry nonReentrant.
GuardedCalls == {"withdraw", "tapMine", "revealTap", "upgrade"}

\* C19: withdraw follows checks-effects-interactions.  When it calls the
\* token's mint the caller's pendingRewards is already 0 and totalMined and
\* todaysMinted are already updated; a nested withdraw, tapMine, revealTap
\* or upgrade made during that call fails and changes nothing; so the
\* supply grows, outside the owner's own mints, only when a withdraw returns
\* and then by exactly the amount that was pending when it was called.
C19_WithdrawReentrancy ==
    [][/\ (~Entered /\ Entered')
          => LET p == inFlight'.sender
                 a == players[p].pendingRewards
             IN  /\ a > 0 /\ inFlight'.amount = a
                 /\ players'[p].pendingRewards = 0
                 /\ players'[p].totalMined = players[p].totalMined + a
                 /\ todaysMinted'
                       = (IF today = currentDay THEN todaysMinted ELSE 0) + a
                 /\ currentDay' = today
                 /\ UNCHANGED tokenVars
       /\ Entered => players[inFlight.sender].pendingRewards = 0
       /\ (Entered /\ Entered' /\ ret'.op \in GuardedCalls)
          => /\ ret'.result = "ReentrancyGuardReentrantCall"
             /\ NothingChanges
       /\ (Entered /\ ~Entered')
          => LET p == inFlight.sender
             IN  /\ ret'.op = "withdraw" /\ ret'.result = "ok"
                 /\ tokenBalance'[p] = tokenBalance[p] + inFlight.amount
                 /\ tokenSupply' = tokenSupply + inFlight.amount
                 /\ UNCHANGED <<gameVars, breakerVars>>
       /\ (tokenSupply' > tokenSupply /\ ret'.op # "tokenMint")
          => /\ Entered /\ ~Entered'
             /\ tokenSupply' = tokenSupply + inFlight.amount]_vars

\* While a withdraw is in flight another player with pending rewards calls
\* withdraw and is refused by the guard.
C19_Witness ==
    /\ Entered
    /\ ret.op = "withdraw" /\ ret.result = "ReentrancyGuardReentrantCall"
    /\ ret.sender # inFlight.sender
    /\ players[ret.sender].pendingRewards > 0
\* No asset occurs twice in the list.
NoDuplicates(miners) ==
    \A i, j \in 1 .. Len(miners) : miners[i] = miners[j] => i = j

\* C20: registerMiner fails with 'Not the owner' when the asset's owner in
\* the registry is not the caller, otherwise with 'Max miners reached' when
\* the caller already has MAX_REGISTERED_MINERS (50) registrations,
\* otherwise with 'Already registered' when the asset is already in the
\* caller's list; a failed call changes nothing and a successful one
\* appends the asset.  Consequently, after any sequence of register and
\* unregister calls, every player's registeredMiners has no duplicates and
\* at most 50 entries.
C20_RegisterMiner ==
    [][/\ ret'.op = "registerMiner" =>
             LET p == ret'.sender
                 t == ret'.arg
                 miners == players[p].registeredMiners
             IN  /\ nftOwner[t] \notin {NoOwner, p}
                       => ret'.result = "Not the owner"
                 /\ (nftOwner[t] = p /\ Len(miners) >= MAX_REGISTERED_MINERS)
                       => ret'.result = "Max miners reached"
                 /\ (/\ nftOwner[t] = p
                     /\ Len(miners) < MAX_REGISTERED_MINERS
                     /\ IsRegistered(miners, t))
                       => ret'.result = "Already registered"
                 /\ ret'.result # "ok" => NothingChanges
                 /\ ret'.result = "ok"
                       => /\ nftOwner[t] = p
                          /\ ~IsRegistered(miners, t)
                          /\ players'[p].registeredMiners = Append(miners, t)
       /\ \A p \in Players :
             /\ NoDuplicates(players'[p].registeredMiners)
             /\ Len(players'[p].registeredMiners) <= MAX_REGISTERED_MINERS]_vars

\* A player with 50 registrations, gained partly after unregistering, offers
\* an asset it owns and has not registered, and is refused.
C20_Witness ==
    /\ ret.op = "registerMiner" /\ ret.result = "Max miners reached"
    /\ Len(players[ret.sender].registeredMiners) = MAX_REGISTERED_MINERS
    /\ ~InOrder(players[ret.sender].registeredMiners)
    /\ nftOwner[ret.arg] = ret.sender
    /\ ~IsRegistered(players[ret.sender].registeredMiners, ret.arg)
\* The assets of a list, as a set.
AssetSet(miners) == {miners[i] : i \in 1 .. Len(miners)}

\* C21: unregisterMiner(assetId) removes exactly that asset from the
\* caller's registeredMiners by swap-with-last-and-truncate: the last entry
\* takes the place of the asset, the list is one shorter and, as a set, is
\* the previous set minus the asset; nothing else changes.  When the asset
\* is not in the list the call fails with 'Miner not registered' and
\* changes nothing.  The caller need not own the asset.
C21_UnregisterMiner ==
    [][ret'.op = "unregisterMiner" =>
          LET p == ret'.sender
              t == ret'.arg
              miners == players[p].registeredMiners
              after == players'[p].registeredMiners
          IN  IF IsRegistered(miners, t)
              THEN /\ ret'.result = "ok"
                   /\ Len(after) = Len(miners) - 1
                   /\ AssetSet(after) = AssetSet(miners) \ {t}
                   /\ \A j \in 1 .. Len(after) :
                         after[j] = IF miners[j] = t THEN miners[Len(miners)]
                                    ELSE miners[j]
                   /\ players' = [players EXCEPT ![p].registeredMiners = after]
                   /\ UNCHANGED <<commitments, blockTaps, configVars, nftVars,
                                  tokenVars, mintVars, blockNumber>>
              ELSE /\ ret'.result = "Miner not registered"
                   /\ NothingChanges]_vars

\* A player has unregistered an asset that now belongs to someone else, and
\* the last entry of its list was moved into the gap.
C21_Witness ==
    /\ ret.op = "unregisterMiner" /\ ret.result = "ok"
    /\ nftOwner[ret.arg] \notin {ret.sender, NoOwner}
    /\ Len(players[ret.sender].registeredMiners) >= 2
    /\ ~InOrder(players[ret.sender].registeredMiners)
    /\ ~IsRegistered(players[ret.sender].registeredMiners, ret.arg)
\* The power a batch of p must use: the sum over the registered assets that
\* p owns now, times (level + 1).
FreshPower(p) == PowerOfSet(RegisteredOwned(p)) * (players[p].level + 1)

\* C22: at the start of every tap batch (direct or revealed) the player's
\* power is recomputed as (sum of the power of the registered assets the
\* player owns at that moment) * (level + 1): the batch caches that value
\* and pays BASE_REWARD * (power + 1) per tap (with the reveal bonus; more
\* on a critical tap), so every registration, unregistration, transfer or
\* level-up made before the tap counts on that tap.  A registered asset
\* that now belongs to someone else is skipped: a direct tap with a valid
\* count, within the block ceiling and not paused, succeeds all the same.
C22_FreshPower ==
    [][/\ (ret'.op \in {"tapMine", "revealTap"} /\ ret'.result = "ok")
          => LET p == ret'.sender
                 base == BaseTapReward(FreshPower(p), ret'.op = "revealTap")
                 tapped == TappedEvents(ret'.events)
             IN  /\ players'[p].totalPower = FreshPower(p)
                 /\ ret'.reward >= base * ret'.taps
                 /\ Cardinality(tapped) = 1
                 /\ \A i \in tapped :
                       ~ret'.events[i].critical
                          => ret'.reward = base * ret'.taps
       /\ (/\ ret'.op = "tapMine"
           /\ ~paused /\ ~Entered
           /\ ValidTapCount(ret'.arg)
           /\ BlockTapsOf(ret'.sender, blockNumber) + ret'.arg
                 <= MAX_TAPS_PER_BLOCK)
          => ret'.result = "ok"]_vars

\* The second batch of a player pays another amount than the first, and
\* the player still lists an asset it has given away.
C22_Witness ==
    /\ ret.op = "tapMine" /\ ret.result = "ok"
    /\ players[ret.sender].totalTaps = 2 /\ ret.taps = 1
    /\ players[ret.sender].pendingRewards # 2 * ret.reward
    /\ players[ret.sender].level = 1
    /\ RegisteredOwned(ret.sender) # {}
    /\ \E t \in TokenIds :
          /\ IsRegistered(players[ret.sender].registeredMiners, t)
          /\ nftOwner[t] \notin {ret.sender, NoOwner}
\* (sum of the power of the listed assets that owners gives to p) *
\* (level + 1), for a player record and the registry's tables.
PowerIn(player, owners, rarities, p) ==
    LET miners == player.registeredMiners
        Owned == {i \in 1 .. Len(miners) : owners[miners[i]] = p}
        sum[S \in SUBSET Owned] ==
            IF S = {} THEN 0
            ELSE LET i == CHOOSE x \in S : TRUE
                 IN  _getPowerByRarity(rarities[miners[i]]) + sum[S \ {i}]
    IN  sum[Owned] * (player.level + 1)

\* The calls after which the cached power is said to be fresh.
PowerCalls == {"tapMine", "revealTap", "registerMiner", "unregisterMiner"}

\* C23: immediately after each successful tap batch, registerMiner or
\* unregisterMiner, the caller's cached totalPower equals (sum of the power
\* of the registered assets the caller owns) * (level + 1).
C23_CachedPowerFresh ==
    [][(ret'.op \in PowerCalls /\ ret'.result = "ok")
          => players'[ret'.sender].totalPower
                = PowerIn(players'[ret'.sender], nftOwner', nftRarity',
                          ret'.sender)]_vars
\* C24: upgrade succeeds exactly when the caller's level is below MAX_LEVEL
\* (100) and its ledger balance and its allowance to the game are both at
\* least cost = (level + 1) * UPGRADE_COST_MULTIPLIER (100 MINE).  On
\* success exactly cost is burned from the caller's balance and the level
\* grows by exactly 1.  It fails with 'Max level reached' first, then with
\* 'Insufficient balance', then with 'Insufficient allowance', and a failed
\* call changes neither a level nor a balance.  No level ever exceeds
\* MAX_LEVEL.
C24_Upgrade ==
    [][/\ ret'.op = "upgrade" =>
             LET p == ret'.sender
                 level == players[p].level
                 cost == (level + 1) * UPGRADE_COST_MULTIPLIER
             IN  /\ ret'.result =
                       IF level >= MAX_LEVEL THEN "Max level reached"
                       ELSE IF tokenBalance[p] < cost
                            THEN "Insufficient balance"
                       ELSE IF tokenAllowance[p] < cost
                            THEN "Insufficient allowance"
                       ELSE "ok"
                 /\ ret'.result = "ok"
                       => /\ tokenBalance'
                                = [tokenBalance EXCEPT ![p] = @ - cost]
                          /\ tokenSupply' = tokenSupply - cost
                          /\ players' = [players EXCEPT ![p].level = level + 1]
                 /\ ret'.result # "ok" => NothingChanges
       /\ \A p \in Players : players'[p].level <= MAX_LEVEL]_vars

\* A player at MAX_LEVEL that still holds MINE is refused.
C24_Witness ==
    /\ ret.op = "upgrade" /\ ret.result = "Max level reached"
    /\ players[ret.sender].level = MAX_LEVEL
    /\ tokenBalance[ret.sender] > 0
\* The player-facing entry points of the game.
PlayerCalls == {"tapMine", "commitTap", "revealTap", "withdraw",
                "registerMiner", "unregisterMiner", "upgrade"}

\* C25: while the game is paused every player-facing entry point (direct
\* tap, commit, reveal, withdraw, register asset, unregister asset,
\* upgrade) fails and changes no state.
C25_PauseStopsEveryCall ==
    [][(paused /\ ret'.op \in PlayerCalls)
          => (ret'.result # "ok" /\ NothingChanges)]_vars

\* The calls that carry whenNotPaused.
PausableCalls == {"tapMine", "commitTap", "revealTap"}

\* C26: while the game is paused tapMine, commitTap and revealTap fail
\* with EnforcedPause and change nothing, whereas withdraw is never
\* rejected because of the pause: a player with pending rewards within the
\* daily limit withdraws them while paused.  When the game is not paused
\* (again), a tap of one within the block ceiling succeeds.
C26_PauseStopsTaps ==
    [][/\ (paused /\ ret'.op \in PausableCalls)
          => (ret'.result = "EnforcedPause" /\ NothingChanges)
       /\ ret'.op = "withdraw"
          => /\ ret'.result # "EnforcedPause"
             /\ (/\ players[ret'.sender].pendingRewards > 0
                 /\ (IF today = currentDay THEN todaysMinted ELSE 0)
                       + players[ret'.sender].pendingRewards <= dailyMintLimit)
                => /\ ret'.result = "ok"
                   /\ tokenBalance'[ret'.sender]
                         = tokenBalance[ret'.sender]
                              + players[ret'.sender].pendingRewards
       /\ (/\ ~paused /\ ret'.op = "tapMine" /\ ret'.arg = 1
           /\ BlockTapsOf(ret'.sender, blockNumber) < MAX_TAPS_PER_BLOCK)
          => ret'.result = "ok"]_vars

\* The game is paused, the player has tapped before and after an earlier
\* pause, and withdraws its rewards.
C26_Witness ==
    /\ paused
    /\ ret.op = "withdraw" /\ ret.result = "ok"
    /\ players[ret.sender].totalTaps = 2
    /\ tokenBalance[ret.sender] > UPGRADE_COST_MULTIPLIER
\* The owner-only functions of the game and the state they administer.
AdminCalls == {"pause", "unpause", "emergencyPause", "setDailyLimit",
               "updateGemReward", "updateCriticalWeights"}
adminVars == <<paused, dailyMintLimit, gemRewards, criticalWeights>>

\* C27: only the owner changes administrative state.  pause, unpause,
\* emergencyPause, setDailyLimit, updateGemReward and updateCriticalWeights
\* called by anyone else fail and leave the paused flag, the daily limit,
\* the gem table and the critical weights (and everything else) unchanged;
\* no player-facing call changes any of the four.
C27_OnlyOwner ==
    [][/\ (ret'.op \in AdminCalls /\ ret'.sender # Owner)
          => /\ ret'.result = "OwnableUnauthorizedAccount"
             /\ NothingChanges
       /\ ret'.op \in PlayerCalls => UNCHANGED adminVars
       /\ adminVars' # adminVars
          => /\ ret'.op \in AdminCalls
             /\ ret'.sender = Owner
             /\ ret'.result = "ok"]_vars

\* A player submits a valid daily limit while the game is paused and the
\* owner's own tables are in force, and is refused.
C27_Witness ==
    /\ ret.op = "setDailyLimit" /\ ret.sender # Owner
    /\ ret.arg \in 1 .. MAX_DAILY_LIMIT
    /\ ret.result = "OwnableUnauthorizedAccount"
    /\ paused
    /\ dailyMintLimit = MAX_DAILY_MINT
    /\ criticalWeights # <<60, 25, 10, 5>>
\* The loop of _selectMultiplier ends without returning: random is below
\* none of the cumulative weights, and the fallback value is returned.
RECURSIVE FallsThrough(_, _, _, _)
FallsThrough(weights, random, i, cumulative) ==
    IF i > 4 THEN TRUE
    ELSE IF random < cumulative + weights[i] THEN FALSE
    ELSE FallsThrough(weights, random, i + 1, cumulative + weights[i])

\* Four weights that sum to 100, under which no draw falls through.
WeightsSound(weights) ==
    /\ Len(weights) = 4
    /\ SumSeq(weights, 1) = 100
    /\ \A random \in 0 .. 99 : ~FallsThrough(weights, random, 1, 0)

\* C28: updateCriticalWeights by the owner rejects every array whose length
\* is not 4 ('Invalid weights length') or whose entries do not sum to
\* exactly 100 ('Weights must sum to 100') and leaves the stored weights as
\* they were; an accepted update replaces all four weights.  Hence the
\* stored weights sum to exactly 100 in every reachable state and the
\* selection of a multiplier never falls through to its fallback.
C28_CriticalWeights ==
    [][/\ (ret'.op = "updateCriticalWeights" /\ ret'.sender = Owner)
          => LET weights == ret'.arg
             IN  IF Len(weights) # 4
                 THEN /\ ret'.result = "Invalid weights length"
                      /\ NothingChanges
                 ELSE IF SumSeq(weights, 1) # 100
                 THEN /\ ret'.result = "Weights must sum to 100"
                      /\ NothingChanges
                 ELSE /\ ret'.result = "ok"
                      /\ criticalWeights' = weights
       /\ WeightsSound(criticalWeights)
       /\ WeightsSound(criticalWeights')]_vars

\* The owner has replaced the default weights, and a later array that sums
\* to 90 is rejected.
C28_Witness ==
    /\ ret.op = "updateCriticalWeights" /\ ret.sender = Owner
    /\ ret.result = "Weights must sum to 100"
    /\ Len(ret.arg) = 4
    /\ criticalWeights = <<5, 10, 25, 60>>
\* C29: the commit path and the direct-tap path are independent.  A
\* successful commitTap writes only the caller's commitment record: it
\* uses no tap budget of the block and changes no player record.  tapMine
\* never changes a commitment and succeeds, with or without a pending
\* commitment, whenever the game is not paused, the count is valid and the
\* block's budget suffices.  A pending commitment is still revealed after
\* direct taps: inside its window, with the values that open it and with
\* budget left in the block, revealTap succeeds.
C29_PathsIndependent ==
    [][/\ (ret'.op = "commitTap" /\ ret'.result = "ok")
          => LET p == ret'.sender
             IN  /\ commitments' =
                       [commitments EXCEPT ![p] =
                          [hash |-> commitments'[p].hash,
                           blockNumber |-> blockNumber,
                           taps |-> ret'.arg, revealed |-> FALSE]]
                 /\ UNCHANGED <<players, blockTaps, configVars, nftVars,
                                tokenVars, mintVars, blockNumber>>
       /\ ret'.op = "tapMine"
          => LET p == ret'.sender
             IN  /\ UNCHANGED commitments
                 /\ (/\ ~paused
                     /\ ValidTapCount(ret'.arg)
                     /\ BlockTapsOf(p, blockNumber) + ret'.arg
                           <= MAX_TAPS_PER_BLOCK)
                    => /\ ret'.result = "ok"
                       /\ players'[p].totalTaps
                             = players[p].totalTaps + ret'.arg
       /\ ret'.op = "revealTap"
          => LET p == ret'.sender
             IN  (/\ ~paused
                  /\ Pending(p) /\ InRevealWindow(p)
                  /\ Opens(p, ret'.arg[1], ret'.arg[2])
                  /\ BlockTapsOf(p, blockNumber) + commitments[p].taps
                        <= MAX_TAPS_PER_BLOCK)
                 => /\ ret'.result = "ok"
                    /\ players'[p].totalTaps
                          = players[p].totalTaps + commitments[p].taps]_vars

\* A player tapped directly in the block after its commitment, while the
\* commitment was pending, and has revealed it since.
C29_Witness ==
    /\ ret.op = "revealTap" /\ ret.result = "ok"
    /\ BlockTapsOf(ret.sender, commitments[ret.sender].blockNumber + 1) > 0
    /\ players[ret.sender].totalTaps > commitments[ret.sender].taps
\* The indices of the CommitmentRevealed events of a call.
RevealedEvents(events) ==
    {i \in 1 .. Len(events) : events[i].name = "CommitmentRevealed"}

\* C30: a successful revealTap marks the commitment revealed and leaves the
\* rest of the record as it is, executes exactly the tap count stored at
\* commit time as a commit-reveal batch (totalTaps and the block's count
\* grow by exactly that count, each tap is paid at least the base reward
\* with the reveal bonus) and emits CommitmentRevealed, last, with the
\* batch reward.  Afterwards the player's next commitTap with a valid count
\* succeeds and overwrites the record with revealed = FALSE and the current
\* block.
C30_CommitmentLifecycle ==
    [][/\ (ret'.op = "revealTap" /\ ret'.result = "ok")
          => LET p == ret'.sender
                 commit == commitments[p]
                 events == ret'.events
             IN  /\ Pending(p)
                 /\ commitments' = [commitments EXCEPT ![p].revealed = TRUE]
                 /\ ret'.taps = commit.taps
                 /\ players'[p].totalTaps = players[p].totalTaps + commit.taps
                 /\ blockTaps'[p][blockNumber] =
                       BlockTapsOf(p, blockNumber) + commit.taps
                 /\ ret'.reward >=
                       BaseTapReward(FreshPower(p), TRUE) * commit.taps
                 /\ players'[p].pendingRewards
                       = players[p].pendingRewards + ret'.reward
                 /\ RevealedEvents(events) = {Len(events)}
                 /\ events[Len(events)].player = p
                 /\ events[Len(events)].reward = ret'.reward
                 /\ \A i \in TappedEvents(events) :
                       events[i].taps = commit.taps
       /\ (/\ ret'.op = "commitTap"
           /\ commitments[ret'.sender].revealed
           /\ ~paused /\ ValidTapCount(ret'.arg))
          => LET p == ret'.sender
             IN  /\ ret'.result = "ok"
                 /\ commitments'[p].blockNumber = blockNumber
                 /\ commitments'[p].taps = ret'.arg
                 /\ ~commitments'[p].revealed]_vars

\* A player whose commitment was revealed and executed has committed again
\* in a later block.
C30_Witness ==
    /\ ret.op = "commitTap" /\ ret.result = "ok"
    /\ players[ret.sender].totalTaps >= 2
    /\ commitments[ret.sender].blockNumber = blockNumber
    /\ blockNumber > COMMIT_REVEAL_BLOCKS + 1
    /\ ~commitments[ret.sender].revealed
\* C31: a withdrawal that fails on the daily mint cap is recoverable by
\* waiting.  On a day on which nothing has been minted yet (the most that
\* waiting can achieve), with the ledger's supply not exhausted, withdraw
\* by a player with pendingRewards > 0 succeeds; so no reachable state
\* leaves pending rewards permanently unwithdrawable.
C31_RecoverableByWaiting ==
    [][\A p \in Players :
         (/\ ret'.op = "withdraw" /\ ret'.sender = p
          /\ players[p].pendingRewards > 0
          /\ (IF today = currentDay THEN todaysMinted ELSE 0) = 0
          /\ tokenSupply + players[p].pendingRewards <= MAX_SUPPLY)
         => ret'.result = "ok"]_vars
\* ---- SpecSupply: the ledger at its supply cap ----
\* What the ledger can still mint.
Headroom == MAX_SUPPLY - tokenSupply

\* The headrooms the deployer leaves (whole MINE): below one plain tap's
\* reward, and between one and two.
SupplyGaps == {5, 15}

\* The small amounts minted and burned next to the cap.
SupplyAmounts == {5}

\* Under SpecSupply a player taps while its lifetime taps are below this.
MaxSupplyTaps == 2

\* The ledger is next to its cap: the deployer has minted the rest.
NearCap == Headroom <= MAX_DAILY_LIMIT

\* The batches the deployer submits.
SupplyBatches ==
    {<<<<>>, <<>>>>, <<<<"p1">>, <<5, 5>>>>, <<<<"p1", "p2">>, <<5, 5>>>>,
     <<<<"p1", "p2">>, <<Headroom, 1>>>>, <<<<"p1", "p1">>, <<Headroom - 5, 5>>>>,
     <<<<"p2", "p1">>, <<MAX_SUPPLY, 1>>>>}

\* The ledger is within two plain taps of its cap.
AtCap == Headroom < BASE_REWARD * MaxSupplyTaps

NextSupply ==
    \/ \E g \in SupplyGaps : ~NearCap /\ tokenMint(Owner, Headroom - g)
    \/ \E a \in SupplyAmounts : AtCap /\ tokenMint("p1", a)
    \/ \E a \in {Headroom, Headroom + 1, MAX_SUPPLY + 1} :
          NearCap /\ tokenMint("p1", a)
    \/ \E b \in SupplyBatches :
          AtCap /\ Headroom >= 5 /\ tokenBatchMint(b[1], b[2])
    \/ \E a \in SupplyAmounts : Headroom = 0 /\ tokenBurn("p1", a)
    \/ /\ ~NearCap /\ tokenBalance["p1"] = 0 /\ players["p1"].level = 0
       /\ tokenMint("p1", UpgradeCost(players["p1"].level))
    \/ /\ tokenBalance["p1"] >= UpgradeCost(players["p1"].level)
       /\ tokenAllowance["p1"] = 0
       /\ tokenApprove("p1", UpgradeCost(players["p1"].level))
    \/ tokenAllowance["p1"] > 0 /\ upgrade("p1")
    \/ \E seed \in WithdrawSeeds :
          players["p1"].totalTaps < MaxSupplyTaps /\ tapMine("p1", 1, seed)
    \/ withdraw("p1")

SpecSupply == Init /\ [][NextSupply]_vars

\* C32: a withdraw whose checks pass but whose amount the ledger cannot mint
\* under MAX_SUPPLY fails as a whole with the ledger's reason; pendingRewards,
\* totalMined, todaysMinted and every balance keep their values.
C32_WithdrawMintFails ==
    [][\A p \in Players :
         (/\ ret'.op = "withdraw" /\ ret'.sender = p
          /\ players[p].pendingRewards > 0
          /\ CountedToday + players[p].pendingRewards <= dailyMintLimit
          /\ tokenSupply + players[p].pendingRewards > MAX_SUPPLY)
         => /\ ret'.result = "MinerToken: Max supply exceeded"
            /\ ret'.events = <<>>
            /\ players' = players
            /\ todaysMinted' = todaysMinted /\ currentDay' = currentDay
            /\ tokenSupply' = tokenSupply /\ tokenBalance' = tokenBalance
            /\ NothingChanges]_vars

C32_Witness ==
    /\ ret.op = "withdraw" /\ ret.sender = "p1"
    /\ ret.result = "MinerToken: Max supply exceeded"
    /\ players["p1"].pendingRewards > 0
    /\ players["p1"].totalMined = 0
    /\ Headroom > 0
\* C33: the ledger's total supply never exceeds MAX_SUPPLY, whatever mint,
\* batchMint, burn, burnFrom or withdraw is called.  A mint or batchMint whose
\* amount (total amount) exceeds the headroom fails and mints nothing; a mint
\* of at most the headroom, the exact headroom included, succeeds and adds
\* its amount to the supply.
C33_SupplyCap ==
    [][/\ tokenSupply' <= MAX_SUPPLY
       /\ ret'.op = "tokenMint" =>
            IF ret'.arg[2] > Headroom
            THEN ret'.result # "ok" /\ ret'.events = <<>> /\ NothingChanges
            ELSE /\ ret'.result = "ok"
                 /\ tokenSupply' = tokenSupply + ret'.arg[2]
                 /\ tokenBalance'[ret'.arg[1]] = tokenBalance[ret'.arg[1]] + ret'.arg[2]
       /\ ret'.op = "tokenBatchMint" =>
            IF SumSeq(ret'.arg[2], 1) > Headroom
            THEN ret'.result # "ok" /\ ret'.events = <<>> /\ NothingChanges
            ELSE ret'.result = "ok" =>
                   tokenSupply' = tokenSupply + SumSeq(ret'.arg[2], 1)
       /\ ret'.op \in {"tokenBurn", "upgrade"} => tokenSupply' <= tokenSupply]_vars

C33_Witness ==
    /\ ret.op = "tokenMint" /\ ret.result = "ok" /\ ret.arg[2] > 0
    /\ tokenSupply = MAX_SUPPLY
    /\ tokenBalance["p2"] > 0
\* ---- SpecBatch: batches whose taps change the dry streak they run under ----
\* Seeds of batches: all plain below a streak of 60 (1), first tap critical
\* at any streak (11), first tap critical only at the full pity bonus (40).
BatchSeeds == {1, 11, 40}
BatchTapCounts == {3, MAX_TAPS_PER_CALL}

\* Under SpecBatch a player taps while its lifetime taps are below this.
MaxBatchTotal == 61

NextBatch ==
    \E t \in BatchTapCounts, seed \in BatchSeeds :
       players["p1"].totalTaps < MaxBatchTotal /\ tapMine("p1", t, seed)

SpecBatch == Init /\ [][NextBatch]_vars

\* The taps of a batch taken one after the other: tap i is rolled on the
\* i-th chained seed against the dry streak that the taps before it leave.
\* The result is the number of critical taps and the streak after the batch.
RECURSIVE TapWalk(_, _, _, _, _)
TapWalk(seed, since, criticals, i, taps) ==
    IF i >= taps THEN [criticals |-> criticals, since |-> since]
    ELSE LET sub == SubSeed(seed, i)
         IN  IF IsCriticalTap(sub, since)
             THEN TapWalk(sub, 0, criticals + 1, i + 1, taps)
             ELSE TapWalk(sub, since + 1, criticals, i + 1, taps)

\* The GemFound events among the events of a call.
GemFoundEvents(events) ==
    {i \in 1 .. Len(events) : events[i].name = "GemFound"}

\* C34: the taps of a batch are decided one after the other, each against
\* the counters the previous tap left.  After a successful batch
\* criticalHits has grown by the number of critical taps, tapsSinceCritical
\* is the number of taps after the last critical one (the old streak plus
\* the batch if there was none), every plain tap earned exactly the base
\* reward and every critical tap a multiple of it, the Tapped flag is true
\* iff a tap was critical, there are no more GemFound events than critical
\* taps, and criticalHits + tapsSinceCritical <= totalTaps.
C34_PerTapCounters ==
    [][(ret'.op = "tapMine" /\ ret'.result = "ok")
       => LET p == ret'.sender
              base == BASE_REWARD * (players'[p].totalPower + 1)
          IN  /\ \E seed \in BatchSeeds :
                   \E walk \in {TapWalk(seed, players[p].tapsSinceCritical, 0, 0,
                                         ret'.taps)} :
                   \E won \in {ret'.reward - GemSum(ret'.events, 1)
                                 - (ret'.taps - walk.criticals) * base} :
                       /\ players'[p].criticalHits
                             = players[p].criticalHits + walk.criticals
                       /\ players'[p].tapsSinceCritical = walk.since
                       /\ walk.criticals = 0
                             => walk.since
                                  = players[p].tapsSinceCritical + ret'.taps
                       /\ walk.criticals > 0 => walk.since < ret'.taps
                       /\ \A i \in TappedEvents(ret'.events) :
                             ret'.events[i].critical <=> walk.criticals > 0
                       /\ Cardinality(GemFoundEvents(ret'.events))
                             <= walk.criticals
                       /\ walk.criticals = 0 => ret'.reward = ret'.taps * base
                       /\ won >= walk.criticals * base * criticalMultipliers[1]
                       /\ won <= walk.criticals * base * criticalMultipliers[4]
              /\ \A q \in Players :
                    players'[q].criticalHits + players'[q].tapsSinceCritical
                       <= players'[q].totalTaps]_vars

\* A batch in which a tap was critical and taps after it were plain, by a
\* player whose streak had passed the pity threshold.
C34_Witness ==
    /\ ret.op = "tapMine" /\ ret.result = "ok" /\ ret.taps > 1
    /\ \E i \in TappedEvents(ret.events) : ret.events[i].critical
    /\ players["p1"].tapsSinceCritical \in 1 .. ret.taps - 1
    /\ players["p1"].criticalHits >= 2
    /\ players["p1"].totalTaps > PITY_THRESHOLD + ret.taps
\* ---- SpecIsolation: two players making every call side by side ----
\* The asset minted to each player: asset 0 to "p1", asset 1 to "p2".
IsolationAsset == [p \in Players |-> IF p = "p1" THEN 0 ELSE 1]
IsolationSeeds == {1}

\* The direct batches each player makes under SpecIsolation.
MaxIsolationTaps == 1

\* The deployer first gives each player an asset and the MINE to level up,
\* and each player approves it.  Then both players call, each call when it
\* succeeds: "p1" in any order, "p2" in the order register, tap, commit,
\* reveal, upgrade, withdraw, unregister.  Blocks are mined while a pending
\* commitment cannot be revealed yet.
IsolationReady ==
    /\ nftCounter = Cardinality(Players)
    /\ \A p \in Players : tokenAllowance[p] > 0 \/ players[p].level > 0

IsolationRegistered(p) ==
    IsRegistered(players[p].registeredMiners, IsolationAsset[p])

NextIsolation ==
    \/ \E p \in Players :
          /\ nftCounter = IsolationAsset[p]
          /\ mintMiner(p, "RARE")
    \/ \E p \in Players :
          /\ nftCounter = Cardinality(Players)
          /\ ~IsolationReady /\ tokenBalance[p] = 0
          /\ \A q \in Players : IsolationAsset[q] < IsolationAsset[p]
                                 => tokenAllowance[q] > 0
          /\ tokenMint(p, UPGRADE_COST_MULTIPLIER)
    \/ \E p \in Players :
          /\ ~IsolationReady /\ tokenBalance[p] > tokenAllowance[p]
          /\ tokenApprove(p, UPGRADE_COST_MULTIPLIER)
    \/ \E p \in Players, seed \in IsolationSeeds :
          /\ IsolationReady /\ commitments[p].blockNumber = 0
          /\ players[p].totalTaps < MaxIsolationTaps
          /\ p = "p1" \/ IsolationRegistered(p)
          /\ tapMine(p, 1, seed)
    \/ \E p \in Players :
          /\ IsolationReady /\ commitments[p].blockNumber = 0
          /\ p = "p1" \/ players[p].totalTaps > 0
          /\ commitTap(p, CommitHash(p, 1, 1, 1), 1)
    \/ \E p \in Players, bh \in BlockHashes :
          /\ IsolationReady /\ RevealTapResult(p, 1, 1) = "ok"
          /\ revealTap(p, 1, 1, bh)
    \/ \E p \in Players :
          /\ IsolationReady /\ players[p].pendingRewards > 0
          /\ p = "p1" \/ players[p].level > 0
          /\ withdraw(p)
    \/ \E p \in Players :
          /\ IsolationReady /\ RegisterMinerResult(p, IsolationAsset[p]) = "ok"
          /\ p = "p1" \/ players[p].totalTaps = 0
          /\ registerMiner(p, IsolationAsset[p])
    \/ \E p \in Players :
          /\ IsolationReady /\ IsolationRegistered(p)
          /\ commitments[p].revealed
          /\ p = "p1" \/ (players[p].level > 0 /\ players[p].pendingRewards = 0)
          /\ unregisterMiner(p, IsolationAsset[p])
    \/ \E p \in Players :
          /\ IsolationReady /\ UpgradeResult(p) = "ok"
          /\ p = "p1" \/ commitments[p].revealed
          /\ upgrade(p)
    \/ /\ \E p \in Players :
             /\ commitments[p].blockNumber # 0 /\ ~commitments[p].revealed
             /\ ~RevealHashAvailable(commitments[p], blockNumber)
       /\ Mine(1)

SpecIsolation == Init /\ [][NextIsolation]_vars
\* C35: a call by a player A (tapMine, commitTap, revealTap, withdraw,
\* registerMiner, unregisterMiner, upgrade) leaves the PlayerData, the
\* commitment and the per-block tap counters of every other player B as they
\* were.  Of the game's state outside A's own records a player call changes
\* only the daily mint counter (withdraw); the owner's configuration is never
\* changed by a player.
C35_PlayerIsolation ==
    [][\A a \in Players :
         (ret'.op \in PlayerCalls /\ ret'.sender = a)
         => /\ \A b \in Players \ {a} :
                  /\ players'[b] = players[b]
                  /\ commitments'[b] = commitments[b]
                  /\ blockTaps'[b] = blockTaps[b]
            /\ UNCHANGED <<configVars, dailyMintLimit>>
            /\ ret'.op # "withdraw" => UNCHANGED <<currentDay, todaysMinted>>]_vars

\* "p1" has withdrawn while "p2" holds rewards, a commitment, tap counters,
\* a registered asset and a level of its own.
C35_Witness ==
    /\ ret.op = "withdraw" /\ ret.sender = "p1" /\ ret.result = "ok"
    /\ players["p2"].pendingRewards > 0
    /\ players["p2"].level > 0
    /\ players["p2"].registeredMiners # <<>>
    /\ commitments["p2"].revealed
    /\ BlockTapsOf("p2", blockNumber) > 0
    /\ players["p1"].totalMined > 0
\* ---- SpecGems: gem selection under the tables the owner can set ----
\* The drop chances the owner submits, the last one above the maximum.
GemChances == {0, 10, 40, 100, 101}

\* Seeds whose first tap is critical and rolls a gem, with the gem draws 10
\* (16), 77 (516) and 97 (216).
GemSeeds == {16, 516, 216}

\* The taps "p1" makes under SpecGems.
MaxGemTaps == 1

NextGems ==
    \/ \E g \in GemTypes, c \in GemChances :
          /\ players["p1"].totalTaps = 0
          /\ updateGemReward(Owner, g, gemRewards[g].bonus, c)
    \/ \E seed \in GemSeeds :
          players["p1"].totalTaps < MaxGemTaps /\ tapMine("p1", 1, seed)

SpecGems == Init /\ [][NextGems]_vars

\* The sum of the three drop chances.
ChanceSum(gems) ==
    gems["RUBY"].dropChance + gems["SAPPHIRE"].dropChance
      + gems["DIAMOND"].dropChance

\* C36: under every gem table the owner can set (each drop chance <= 100,
\* any sum) and for every draw in 0..99, _selectGem does not underflow and
\* returns RUBY, SAPPHIRE or DIAMOND by cumulative drop chance in that
\* order, and NONE exactly when the draw is >= the sum of the chances.  A
\* critical tap that rolls a gem and selects NONE earns the multiplied base
\* reward and emits no GemFound; one that selects a gem emits one GemFound
\* with the gem's bonus.
C36_GemSelection ==
    /\ \A g \in GemTypes : gemRewards[g].dropChance <= 100
    /\ \A draw \in 0 .. 99 :
          LET ruby == gemRewards["RUBY"].dropChance
              sapphire == gemRewards["SAPPHIRE"].dropChance
              gem == _selectGem(gemRewards, draw)
          IN  /\ ~_selectGemUnderflows(gemRewards, draw)
              /\ gem = (IF draw < ruby THEN "RUBY"
                        ELSE IF draw < ruby + sapphire THEN "SAPPHIRE"
                        ELSE IF draw < ChanceSum(gemRewards) THEN "DIAMOND"
                        ELSE NONE)
              /\ gem = NONE <=> draw >= ChanceSum(gemRewards)
    /\ \A seed \in GemSeeds :
          LET sub == SubSeed(seed, 0)
              gem == _selectGem(gemRewards, sub \div 256)
              run == _executeTaps("p1", 1, seed, FALSE)
              base == BASE_REWARD * (_calculateAndCachePower("p1") + 1)
              found == GemFoundEvents(run.events)
          IN  /\ run.result = "ok"
              /\ gem = NONE
                   => /\ found = {}
                      /\ run.reward
                           = base * _selectMultiplier(criticalWeights, sub)
              /\ gem # NONE
                   => /\ Cardinality(found) = 1
                      /\ \A i \in found :
                            /\ run.events[i].gemType = gem
                            /\ run.events[i].bonus = gemRewards[gem].bonus
                      /\ run.reward
                           = base * _selectMultiplier(criticalWeights, sub)
                               + gemRewards[gem].bonus

\* A critical tap rolled a gem under a table whose chances sum to less than
\* 100 and the draw fell past them: no gem, no GemFound.
C36_Witness ==
    /\ ret.op = "tapMine" /\ ret.result = "ok"
    /\ \E i \in TappedEvents(ret.events) : ret.events[i].critical
    /\ GemFoundEvents(ret.events) = {}
    /\ ChanceSum(gemRewards) \in 1 .. 99
    /\ gemRewards["RUBY"].dropChance > 0
    /\ gemRewards["SAPPHIRE"].dropChance > 0
\* C37: reward accounting is conserved.  A successful batch adds its reward
\* to the caller's pendingRewards and leaves totalMined; a successful
\* withdraw moves the whole of pendingRewards to totalMined and mints that
\* amount to the caller; no other step changes either number, so
\* pendingRewards goes down only by the player's own withdraw, to 0.  Hence
\* pendingRewards + totalMined is the sum of the rewards of the player's
\* batches (BASE_REWARD per tap where every tap is plain) and totalMined is
\* what the game has minted to the player (its whole balance where nothing
\* else pays or charges it).
C37_RewardsConserved ==
    [][\A p \in Players :
         LET batch == /\ ret'.op \in {"tapMine", "revealTap"}
                      /\ ret'.sender = p /\ ret'.result = "ok"
             drawn == /\ ret'.op = "withdraw"
                      /\ ret'.sender = p /\ ret'.result = "ok"
         IN  /\ batch => /\ players'[p].pendingRewards
                              = players[p].pendingRewards + ret'.reward
                         /\ players'[p].totalMined = players[p].totalMined
             /\ drawn => /\ players'[p].pendingRewards = 0
                         /\ players'[p].totalMined
                              = players[p].totalMined + players[p].pendingRewards
                         /\ tokenBalance'[p]
                              = tokenBalance[p] + players[p].pendingRewards
                         /\ WithdrawnAmount(ret'.events) = players[p].pendingRewards
             /\ ~batch /\ ~drawn
                  => /\ players'[p].pendingRewards = players[p].pendingRewards
                     /\ players'[p].totalMined = players[p].totalMined
                     /\ tokenBalance'[p] = tokenBalance[p]
             /\ players'[p].pendingRewards < players[p].pendingRewards => drawn
             /\ players'[p].pendingRewards + players'[p].totalMined
                   = BASE_REWARD * players'[p].totalTaps
             /\ players'[p].totalMined = tokenBalance'[p]]_vars

\* A player has withdrawn, tapped again, and the other player holds rewards.
C37_Witness ==
    /\ ret.op = "withdraw" /\ ret.result = "ok" /\ ret.sender = "p2"
    /\ players["p1"].totalMined > 0
    /\ players["p1"].pendingRewards > 0
    /\ players["p2"].totalMined = BASE_REWARD * MaxWithdrawTaps
\* C38 (as claimed): in every reachable state todaysMinted <= dailyMintLimit
\* and 0 < dailyMintLimit <= MAX_DAILY_LIMIT.
C38_MintedWithinLimit ==
    /\ todaysMinted <= dailyMintLimit
    /\ 0 < dailyMintLimit /\ dailyMintLimit <= MAX_DAILY_LIMIT

\* C38 (amended): 0 < dailyMintLimit <= MAX_DAILY_LIMIT in every reachable
\* state, and every successful withdraw leaves todaysMinted <= dailyMintLimit.
\* todaysMinted rises above dailyMintLimit only by a setDailyLimit of the
\* owner below what the day has minted; from then on no withdraw of that day
\* succeeds until the limit is raised.
C38_MintedWithinLimitAtWithdraw ==
    [][/\ 0 < dailyMintLimit' /\ dailyMintLimit' <= MAX_DAILY_LIMIT
       /\ (ret'.op = "withdraw" /\ ret'.result = "ok")
             => todaysMinted' <= dailyMintLimit'
       /\ (todaysMinted' > dailyMintLimit' /\ todaysMinted <= dailyMintLimit)
             => /\ ret'.op = "setDailyLimit" /\ ret'.sender = Owner
                /\ ret'.result = "ok" /\ ret'.arg < todaysMinted
       /\ (/\ ret'.op = "withdraw" /\ today = currentDay
           /\ todaysMinted > dailyMintLimit)
             => ret'.result # "ok" /\ NothingChanges]_vars

\* The owner has lowered the limit below what the day has minted and a
\* withdraw of that day was refused.
C38_Witness ==
    /\ ret.op = "withdraw" /\ ret.result = "Daily limit exceeded"
    /\ today = currentDay
    /\ todaysMinted > dailyMintLimit
\* ---- SpecShared: one asset registered by its previous and its new owner ----
\* The asset that changes hands, and a seed whose single tap is plain.
SharedAssets == {0}
SharedSeeds == {1}

\* The taps each player makes under SpecShared.
MaxSharedTaps == 2

NextShared ==
    \/ nftCounter \in SharedAssets /\ mintMiner("p1", "RARE")
    \/ \E p \in Players, t \in SharedAssets :
          RegisterMinerResult(p, t) = "ok" /\ registerMiner(p, t)
    \/ \E p \in Players, q \in Players, t \in SharedAssets :
          /\ nftCounter > t /\ IsRegistered(players[p].registeredMiners, t)
          /\ transferMiner(p, q, t)
    \/ \E p \in Players, seed \in SharedSeeds :
          players[p].totalTaps < MaxSharedTaps /\ tapMine(p, 1, seed)

SpecShared == Init /\ [][NextShared]_vars

\* C39: an asset boosts at most one player at a time.  In a batch of p a
\* registered asset counts only if the registry names p as its owner at that
\* moment: the batch's power is that of the assets p has registered and owns,
\* so an asset that p registered and gave away no longer counts in p's next
\* tap, while it counts for the new owner once that one has registered it;
\* and no asset is counted for two players in the same state.
C39_OneOwnerBoosted ==
    [][\A p \in Players :
         (ret'.op = "tapMine" /\ ret'.sender = p /\ ret'.result = "ok")
         => /\ players'[p].totalPower
                 = PowerOfSet(RegisteredOwned(p)) * (players[p].level + 1)
            /\ ret'.reward
                 = BASE_REWARD * (players'[p].totalPower + 1) * ret'.taps
            /\ \A t \in TokenIds :
                  (IsRegistered(players[p].registeredMiners, t)
                     /\ nftOwner[t] # p)
                  => /\ t \notin RegisteredOwned(p)
                     /\ \A q \in Players \ {p} :
                           t \in RegisteredOwned(q) => nftOwner[t] = q
            /\ \A t \in TokenIds :
                  Cardinality({q \in Players : t \in RegisteredOwned(q)}) <= 1]_vars

\* Both players have the asset registered; "p2" owns it and has tapped with
\* its power; "p1", who tapped with it before giving it away, has tapped
\* again and earned the bare base reward.
C39_Witness ==
    /\ ret.op = "tapMine" /\ ret.sender = "p1" /\ ret.result = "ok"
    /\ ret.reward = BASE_REWARD
    /\ \A p \in Players : IsRegistered(players[p].registeredMiners, 0)
    /\ nftOwner[0] = "p2"
    /\ players["p2"].totalPower > 0
    /\ players["p1"].pendingRewards > MaxSharedTaps * BASE_REWARD
    /\ players["p1"].totalPower = 0
====
